---- MODULE Spec2Model ----
(***************************************************************************)
(* Model of the content-aware double page splitter                         *)
(* (services/manga_upscale_service/doublepage_split.py).                   *)
(*                                                                         *)
(* One call of split_image is a run of the stage actions below, in the     *)
(* order of the statements of the function.  The ratios of SplitConfig are *)
(* held in thousandths (Milli), content_width_ratio as a fraction num/den. *)
(* The values enumerated for the ratios are ones for which the float       *)
(* product or quotient of the code and the exact one fall on the same side *)
(* of every comparison.                                                    *)
(*                                                                         *)
(* An image is a white canvas with black filled blocks (as the unit tests  *)
(* draw them).  The mask is computed from its pixels as cv2 computes it    *)
(* for 8-bit data: the grey image, the 5x5 Gaussian blur in fixed point,   *)
(* CLAHE on its 8x8 grid of tiles, Otsu's threshold, and the opening and   *)
(* closing with the 5x5 rectangle.                                         *)
(*                                                                         *)
(* The locator works on float32 values, held as their IEEE-754 bit         *)
(* patterns, which order as the values do.  What follows np.cumsum is      *)
(* float32 arithmetic as well, as NumPy 2 evaluates it: a Python float     *)
(* that meets a float32 scalar is taken as float32.  confidence is the     *)
(* float32 value the locator returns, negated bit pattern for a negative   *)
(* value.                                                                  *)
(*                                                                         *)
(* The row filter of cv2.GaussianBlur multiplies and adds in float32; a    *)
(* build of cv2 either rounds the product and then the sum, or fuses the   *)
(* two into one rounding.  Which of the two the build in use does is the   *)
(* variable fused: any value in the initial state, the same for every call *)
(* of a run.                                                               *)
(***************************************************************************)
EXTENDS Integers, Sequences, FiniteSets, TLC

\* Bounds of the model.
MaxW == 13
MaxH == 6
\* Jobs created by POST /jobs, _run_job tasks created by create_job and
\* resume_job, and the largest MAX_CONCURRENCY.
MaxJobs == 2
MaxTasks == 2
MaxConcurrency == 2

\* Units.
Milli == 1000

NoneX == -1

VARIABLES
    pc,        \* position inside split_image
    image,     \* the image argument
    config,    \* the SplitConfig argument
    mask,      \* local mask
    bbox,      \* local bbox
    padding,   \* locals padding_x, padding_y
    located,   \* what _locate_split returned
    result,    \* the SplitResult returned
    calls,     \* helper functions invoked by the current call
    probe,     \* the locals of the last _locate_split call
    views,     \* indices of the returned pages that share the image's pixels
    painted,   \* index of the returned page the caller wrote to (0: none)
    earlier,   \* an earlier call remembered by the caller
    cli,       \* what _export_result did for the current result
    jobs,      \* main.py: the jobs dict, job id -> JobRecord
    tasks,     \* main.py: the _run_job tasks created so far
    waiters,   \* worker_semaphore: tasks queued in acquire(), first in front
    permits,   \* worker_semaphore: its counter
    max_concurrency,  \* MAX_CONCURRENCY
    cancelled, \* job ids cancelled and not resumed since
    reply,     \* the answer to the last HTTP request
    fused      \* the cv2 build in use fuses the multiply-adds of its filters

vars == <<pc, image, config, mask, bbox, padding, located, result, calls,
          probe, views, painted, earlier, cli,
          jobs, tasks, waiters, permits, max_concurrency, cancelled, reply,
          fused>>
caller == <<painted, earlier, cli>>
service == <<jobs, tasks, waiters, permits, max_concurrency, cancelled, reply>>
\* What no statement of split_image and of split_cli assigns.
elsewhere == <<service, fused>>
splitter == <<pc, image, config, mask, bbox, padding, located, result, calls,
              probe, views, painted, earlier, cli, fused>>

Max(a, b) == IF a >= b THEN a ELSE b
Min(a, b) == IF a <= b THEN a ELSE b
Abs(a) == IF a >= 0 THEN a ELSE 0 - a

\* a/b < c/d for a, c >= 0 and b, d > 0, without forming a product.
RECURSIVE FracLess(_, _, _, _)
FracLess(a, b, c, d) ==
    LET qa == a \div b
        qc == c \div d
        ra == a % b
        rc == c % d
    IN  IF qa # qc THEN qa < qc
        ELSE IF rc = 0 THEN FALSE
        ELSE IF ra = 0 THEN TRUE
        ELSE FracLess(d, rc, b, ra)

\* int(ratio * dimension) for a ratio held in thousandths.
IntOfProduct(ratio, dimension) == (ratio * dimension) \div Milli

-----------------------------------------------------------------------------
(* Inputs *)

SplitConfig(mar, pr, ct, ccr, eer, mfr) ==
    [min_aspect_ratio |-> mar, padding_ratio |-> pr,
     confidence_threshold |-> ct, cover_content_ratio |-> ccr,
     edge_exclusion_ratio |-> eer, min_foreground_ratio |-> mfr]

DefaultConfig == SplitConfig(1200, 15, 100, 450, 120, 10)

Configs ==
    { DefaultConfig,
      SplitConfig(1000, 15, 0, 450, 120, 0),
      SplitConfig(1000, 250, 100, 450, 500, 10),
      SplitConfig(1200, 250, 500, 1000, 120, 500),
      SplitConfig(1500, 15, 1000, 0, 120, 0),
      SplitConfig(250, 15, 1, 450, 120, 10) }

\* _locate_split reads one field of its config, edge_exclusion_ratio: a
\* config for each value of it.
LocatorConfigs ==
    { CHOOSE cfg \in Configs : cfg.edge_exclusion_ratio = e :
        e \in { cfg.edge_exclusion_ratio : cfg \in Configs } }

Intervals(n) == { p \in (0..n) \X (0..n) : p[1] < p[2] }

Block(xs, ys) == [x0 |-> xs[1], x1 |-> xs[2], y0 |-> ys[1], y1 |-> ys[2]]

\* No block, one block, or a block and a full-height block to its right.
BlockLists(w, h) ==
    { << >> }
    \cup { << Block(xs, ys) >> : xs \in Intervals(w), ys \in Intervals(h) }
    \cup { << Block(p[1], p[3]), Block(p[2], <<0, h>>) >> :
             p \in { q \in Intervals(w) \X Intervals(w) \X Intervals(h) :
                       q[1][2] < q[2][1] } }

\* The blocks drawn on the images given to split_image: a speck in the
\* corner, or a run of three columns and more that starts at the left edge
\* or three columns from it or ends at the right edge, over the whole height
\* or over the rows 1 to 3.
Spans(w) ==
    { p \in Intervals(w) :
        \/ p = <<0, 1>>
        \/ p[2] - p[1] >= 3 /\ (p[1] \in {0, 3} \/ p[2] = w) }

Bands(h) ==
    { <<0, h>> } \cup (IF h > 3 THEN { <<1, 4>> } ELSE {})

\* No block or one block.
InkLists(w, h) ==
    { << >> } \cup { << Block(xs, ys) >> : xs \in Spans(w), ys \in Bands(h) }

Dark(img, x, y) ==
    \E i \in 1..Len(img.blocks) :
        /\ img.blocks[i].x0 <= x /\ x < img.blocks[i].x1
        /\ img.blocks[i].y0 <= y /\ y < img.blocks[i].y1

ZeroArea(img) == img.h = 0 \/ img.w = 0

-----------------------------------------------------------------------------
(* Helpers of split_image *)

Height(m) == Cardinality(DOMAIN m)
Width(m) == IF DOMAIN m = {} THEN 0 ELSE Cardinality(DOMAIN m[0])

\* The pixel values of the canvas and of the ink.
White == 255
Black == 0

\* cv2.cvtColor(image, cv2.COLOR_BGR2GRAY): the grey image, rows of pixels.
Gray(img) ==
    [y \in 0..(img.h - 1) |-> [x \in 0..(img.w - 1) |->
        IF Dark(img, x, y) THEN Black ELSE White]]

\* cv2.borderInterpolate(p, len, BORDER_REFLECT_101)
RECURSIVE Reflect101(_, _)
Reflect101(p, len) ==
    IF len = 1 THEN 0
    ELSE IF p < 0 THEN Reflect101(0 - p, len)
    ELSE IF p >= len THEN Reflect101(2 * len - 2 - p, len)
    ELSE p

\* cv2.GaussianBlur(gray, (5, 5), sigmaX=0) on 8-bit data: the fixed-point
\* kernel 1 4 6 4 1 (sixteenths) along the rows, then along the columns,
\* the result rounded once: (sum + 128) >> 8.
Blurred(gray) ==
    LET h == Height(gray)
        w == Width(gray)
        row(y, x) == gray[y][Reflect101(x - 2, w)]
                     + 4 * gray[y][Reflect101(x - 1, w)]
                     + 6 * gray[y][x]
                     + 4 * gray[y][Reflect101(x + 1, w)]
                     + gray[y][Reflect101(x + 2, w)]
        rows == [y \in 0..(h - 1) |-> [x \in 0..(w - 1) |-> row(y, x)]]
        col(y, x) == rows[Reflect101(y - 2, h)][x]
                     + 4 * rows[Reflect101(y - 1, h)][x]
                     + 6 * rows[y][x]
                     + 4 * rows[Reflect101(y + 1, h)][x]
                     + rows[Reflect101(y + 2, h)][x]
    IN  [y \in 0..(h - 1) |-> [x \in 0..(w - 1) |-> (col(y, x) + 128) \div 256]]

\* cvRound(n / d): to nearest, ties to even, for n >= 0 and d > 0.
RoundHalfEven(n, d) ==
    LET q == n \div d
        r == n % d
    IN  IF 2 * r > d \/ (2 * r = d /\ (q % 2) = 1) THEN q + 1 ELSE q

\* cv2.createCLAHE(clipLimit=2.0, tileGridSize=(8, 8)) on 8-bit data.
TilesX == 8
TilesY == 8
ClipLimit == 2
HistSize == 256

\* The lookup table of one tile (the sequence of its pixels) at grey value
\* v: the histogram is clipped at max(clipLimit * area / 256, 1), what was
\* cut off is handed out again (the same share to every bin, the rest to
\* every residualStep-th bin), and the table is the running sum scaled by
\* 255 / area.
TileLut(tile, v) ==
    LET total == Len(tile)
        limit == Max((ClipLimit * total) \div HistSize, 1)
        count(u) == Cardinality({ i \in DOMAIN tile : tile[i] = u })
        levels == { tile[i] : i \in DOMAIN tile }
        kept(S) == LET f[T \in SUBSET S] ==
                         IF T = {} THEN 0
                         ELSE LET u == CHOOSE u \in T : TRUE
                              IN  Min(count(u), limit) + f[T \ {u}]
                   IN  f[S]
        clipped == total - kept(levels)
        redistBatch == clipped \div HistSize
        residual == clipped % HistSize
        residualStep == IF residual = 0 THEN 1
                        ELSE Max(HistSize \div residual, 1)
        sum == kept({ u \in levels : u <= v })
               + redistBatch * (v + 1)
               + (IF residual = 0 THEN 0
                  ELSE Min(residual, v \div residualStep + 1))
    IN  Min(RoundHalfEven(sum * (HistSize - 1), total), 255)

\* clahe.apply(blurred): an image whose sides are not multiples of 8 is
\* grown at the right and at the bottom (BORDER_REFLECT_101) to the next
\* multiples; each pixel is looked up in the tables of the four tiles whose
\* centres surround it and the four values are interpolated bilinearly.
Equalized(src) ==
    LET h == Height(src)
        w == Width(src)
        whole == (w % TilesX) = 0 /\ (h % TilesY) = 0
        eh == IF whole THEN h ELSE h + TilesY - (h % TilesY)
        ew == IF whole THEN w ELSE w + TilesX - (w % TilesX)
        tw == ew \div TilesX
        th == eh \div TilesY
        ext(y, x) == src[Reflect101(y, h)][Reflect101(x, w)]
        tile(ty, tx) ==
            [i \in 1..(tw * th) |->
                ext(ty * th + ((i - 1) \div tw), tx * tw + ((i - 1) % tw))]
        tiles == [ty \in 0..(TilesY - 1) |->
                    [tx \in 0..(TilesX - 1) |-> tile(ty, tx)]]
        at(y, x) ==
            LET v == src[y][x]
                nx == 2 * x - tw
                ny == 2 * y - th
                tx1 == nx \div (2 * tw)
                ty1 == ny \div (2 * th)
                xa == nx - tx1 * 2 * tw
                ya == ny - ty1 * 2 * th
                xa1 == 2 * tw - xa
                ya1 == 2 * th - ya
                cx1 == Max(tx1, 0)
                cx2 == Min(tx1 + 1, TilesX - 1)
                cy1 == Max(ty1, 0)
                cy2 == Min(ty1 + 1, TilesY - 1)
                lut(ty, tx) == TileLut(tiles[ty][tx], v)
            IN  RoundHalfEven(
                    (lut(cy1, cx1) * xa1 + lut(cy1, cx2) * xa) * ya1
                    + (lut(cy2, cx1) * xa1 + lut(cy2, cx2) * xa) * ya,
                    4 * tw * th)
    IN  [y \in 0..(h - 1) |-> [x \in 0..(w - 1) |-> at(y, x)]]

Pixels(src) == (0..(Height(src) - 1)) \X (0..(Width(src) - 1))

\* The threshold cv2.threshold(..., THRESH_OTSU) picks: the level with the
\* greatest between-class variance q1 q2 (mu1 - mu2)^2, the lowest such
\* level on a tie, 0 when the image has one level only.  The variances are
\* compared as the fractions (s1 n2 - s2 n1)^2 / (n1 n2).
OtsuThreshold(src) ==
    LET px == Pixels(src)
        n == Cardinality(px)
        levels == { src[p[1]][p[2]] : p \in px }
        below(t) == { p \in px : src[p[1]][p[2]] <= t }
        sumOf(S) == LET f[T \in SUBSET S] ==
                          IF T = {} THEN 0
                          ELSE LET p == CHOOSE p \in T : TRUE
                               IN  src[p[1]][p[2]] + f[T \ {p}]
                    IN  f[S]
        total == sumOf(px)
        stat(t) == LET b == below(t)
                       n1 == Cardinality(b)
                       s1 == sumOf(b)
                   IN  [num |-> Abs(s1 * (n - n1) - (total - s1) * n1),
                        den |-> n1 * (n - n1)]
        cands == { t \in levels : \E u \in levels : u > t }
        stats == [t \in cands |-> stat(t)]
        less(a, b) == IF a.num = 0 THEN b.num > 0
                      ELSE IF b.num = 0 THEN FALSE
                      ELSE FracLess(a.num, b.num, b.num * a.den, a.num * b.den)
        best == { t \in cands : /\ stats[t].num > 0
                                /\ \A u \in cands : ~less(stats[t], stats[u]) }
    IN  IF best = {} THEN 0 ELSE CHOOSE t \in best : \A u \in best : t <= u

\* cv2.threshold(equalized, 0, 255, THRESH_BINARY_INV + THRESH_OTSU): 255
\* (here TRUE) where the value is not above the threshold.
Binary(equalized) ==
    LET t == OtsuThreshold(equalized)
    IN  [y \in DOMAIN equalized |->
            [x \in DOMAIN equalized[y] |-> equalized[y][x] <= t]]

\* cv2.getStructuringElement(cv2.MORPH_RECT, (5, 5)), anchored at its centre.
KernelReach == 2

\* cv2.erode / cv2.dilate with the 5x5 rectangle; pixels outside the image
\* do not take part (the default border value of the morphology).
Erode(m) ==
    LET h == Height(m)
        w == Width(m)
    IN  [y \in 0..(h - 1) |-> [x \in 0..(w - 1) |->
            \A j \in Max(y - KernelReach, 0)..Min(y + KernelReach, h - 1),
               i \in Max(x - KernelReach, 0)..Min(x + KernelReach, w - 1) :
                m[j][i]]]

Dilate(m) ==
    LET h == Height(m)
        w == Width(m)
    IN  [y \in 0..(h - 1) |-> [x \in 0..(w - 1) |->
            \E j \in Max(y - KernelReach, 0)..Min(y + KernelReach, h - 1),
               i \in Max(x - KernelReach, 0)..Min(x + KernelReach, w - 1) :
                m[j][i]]]

\* cv2.morphologyEx(..., cv2.MORPH_OPEN / cv2.MORPH_CLOSE, kernel, iterations=1)
MorphOpen(m) == Dilate(Erode(m))
MorphClose(m) == Erode(Dilate(m))

\* _build_foreground_mask(image): cleaned > 0
_build_foreground_mask(img) ==
    MorphClose(MorphOpen(Binary(Equalized(Blurred(Gray(img))))))

\* A mask handed to _locate_split by the caller: True inside the blocks.
MaskOf(img) ==
    [y \in 0..(img.h - 1) |-> [x \in 0..(img.w - 1) |-> Dark(img, x, y)]]

TruePixels(m) == { p \in (DOMAIN m) \X (0..(Width(m) - 1)) : m[p[1]][p[2]] }

MaskAny(m) == TruePixels(m) # {}

SetMin(S) == CHOOSE a \in S : \A b \in S : a <= b
SetMax(S) == CHOOSE a \in S : \A b \in S : a >= b

\* (x_min, y_min, x_max_plus1, y_max_plus1); raises on an empty mask.
_compute_bbox(m) ==
    LET ys == { p[1] : p \in TruePixels(m) }
        xs == { p[2] : p \in TruePixels(m) }
    IN  <<SetMin(xs), SetMin(ys), SetMax(xs) + 1, SetMax(ys) + 1>>

\* An array cut from the image is held as the rectangle it shows and the
\* array its pixels are stored in (numpy's base): the image or the array
\* itself.
\* img[y0:y1, x0:x1]: basic slicing gives a view, no pixel is copied.
Slice(img, x0, x1, y0, y1) ==
    [x0 |-> x0, x1 |-> x1, y0 |-> y0, y1 |-> y1, base |-> "image"]

\* ndarray.copy(): a new array that stores the same values itself.
Copy(array) == [array EXCEPT !.base = "own"]

\* Variant: the padded box is not clamped to the image.
_crop_region_Unclamped(img, box, padding_x, padding_y) ==
    Copy(Slice(img, box[1] - padding_x, box[3] + padding_x,
               box[2] - padding_y, box[4] + padding_y))

\* Variant: the slice is returned as it is, without .copy().
_crop_region_View(img, box, padding_x, padding_y) ==
    Slice(img, Max(box[1] - padding_x, 0), Min(box[3] + padding_x, img.w),
          Max(box[2] - padding_y, 0), Min(box[4] + padding_y, img.h))

\* image[y0:y1, x0:x1].copy()
_crop_region(img, box, padding_x, padding_y) ==
    Copy(Slice(img, Max(box[1] - padding_x, 0), Min(box[3] + padding_x, img.w),
               Max(box[2] - padding_y, 0), Min(box[4] + padding_y, img.h)))

\* Variant: a side without foreground gets the box of the whole image.
_compute_region_bbox_WholeImage(m, x_start, x_end) ==
    LET slice == { p \in TruePixels(m) : x_start <= p[2] /\ p[2] < x_end }
        ys == { p[1] : p \in slice }
        xs == { p[2] : p \in slice }
    IN  IF slice = {}
        THEN <<0, 0, Width(m), Height(m)>>
        ELSE <<SetMin(xs), SetMin(ys), SetMax(xs) + 1, SetMax(ys) + 1>>

_compute_region_bbox(m, x_start, x_end) ==
    LET slice == { p \in TruePixels(m) : x_start <= p[2] /\ p[2] < x_end }
        ys == { p[1] : p \in slice }
        xs == { p[2] : p \in slice }
    IN  IF slice = {}
        THEN <<x_start, 0, x_end, Height(m)>>
        ELSE <<SetMin(xs), SetMin(ys), SetMax(xs) + 1, SetMax(ys) + 1>>

\* np.shares_memory(crop, image): the pixels of the crop are stored in the
\* image.
SharesPixels(crop) == crop.base = "image"

SharedPages(pages) == { i \in DOMAIN pages : SharesPixels(pages[i]) }

\* np.clip(v, lo, hi) = minimum(maximum(v, lo), hi)
Clip(v, lo, hi) == Min(Max(v, lo), hi)

\* Variant: left page first.
_extract_pages_LeftFirst(img, m, split_x, padding_x, padding_y) ==
    LET width == Width(m)
        sx == Clip(split_x, 1, width - 1)
    IN  << _crop_region(img, _compute_region_bbox(m, 0, sx),
                        padding_x, padding_y),
           _crop_region(img, _compute_region_bbox(m, sx, width),
                        padding_x, padding_y) >>

\* Variant: a side without foreground gives no page.
_extract_pages_SkipEmptySide(img, m, split_x, padding_x, padding_y) ==
    LET width == Width(m)
        sx == Clip(split_x, 1, width - 1)
        side(a, b) ==
            IF \E p \in TruePixels(m) : a <= p[2] /\ p[2] < b
            THEN << _crop_region(img, _compute_region_bbox(m, a, b),
                                 padding_x, padding_y) >>
            ELSE << >>
    IN  side(sx, width) \o side(0, sx)

_extract_pages(img, m, split_x, padding_x, padding_y) ==
    LET width == Width(m)
        sx == Clip(split_x, 1, width - 1)
        right == _crop_region(img, _compute_region_bbox(m, sx, width),
                              padding_x, padding_y)
        left == _crop_region(img, _compute_region_bbox(m, 0, sx),
                             padding_x, padding_y)
    IN  <<right, left>>

-----------------------------------------------------------------------------
(* Split Locator *)

Projection(m) ==
    [x \in 0..(Width(m) - 1) |-> Cardinality({ y \in DOMAIN m : m[y][x] })]

\* A positive float32 is held as its IEEE-754 bit pattern: the biased
\* exponent times 2^23 plus the 23 stored bits of the significand; 0 is 0.0.
\* Bit patterns of non-negative floats order as the floats do.
Hidden == 8388608
Mantissa(f) == (f % Hidden) + Hidden
Exponent(f) == f \div Hidden
Float32(m, e) ==
    IF m = 2 * Hidden THEN (e + 1) * Hidden ELSE e * Hidden + (m - Hidden)

\* n / 2^t rounded to nearest, ties to even.
HalfEven(n, t) ==
    LET d == 2 ^ t
        q == n \div d
        r == n % d
    IN  IF 2 * r > d \/ (2 * r = d /\ (q % 2) = 1) THEN q + 1 ELSE q

\* n / 2^t with the bits shifted out kept as a sticky last bit.
Sticky(n, t) ==
    LET d == 2 ^ t
        q == n \div d
    IN  IF (n % d) # 0 /\ (q % 2) = 0 THEN q + 1 ELSE q

\* Bits of n above the 24 of a significand, for n < 2^28.
Excess(n) ==
    IF n < 2 * Hidden THEN 0 ELSE IF n < 4 * Hidden THEN 1
    ELSE IF n < 8 * Hidden THEN 2 ELSE IF n < 16 * Hidden THEN 3 ELSE 4

\* The float32 product of a float32 and a small count.
F32Mul(f, p) ==
    IF p = 0 \/ f = 0 THEN 0
    ELSE LET n == Mantissa(f) * p
             t == Excess(n)
         IN  Float32(HalfEven(n, t), Exponent(f) + t)

\* Bits of n above the 24 of a significand, for n < 2^31.
ExcessBits(n) == Cardinality({ t \in 0..6 : n >= 2 ^ (24 + t) })

\* The float32 sum of two non-negative float32 (three guard bits).
F32Add(a, b) ==
    IF a = 0 THEN b ELSE IF b = 0 THEN a
    ELSE LET hi == Max(a, b)
             lo == Min(a, b)
             d == Exponent(hi) - Exponent(lo)
             s == Mantissa(hi) * 8
                  + (IF d > 27 THEN 1 ELSE Sticky(Mantissa(lo) * 8, d))
             t == IF s < 16 * Hidden THEN 0 ELSE 1
         IN  Float32(HalfEven(Sticky(s, t), 3), Exponent(hi) + t)

\* Float32 constants of the locator: np.float32(1e-6), np.float32(0.1), 0.5,
\* 1.0 and float("inf").
EpsF32 == 897988541
TenthF32 == 1036831949
HalfF32 == 1056964608
OneF32 == 1065353216
Infinity == 2139095040

\* The double 1e-6 in units of 2^-50, rounded down.
EpsAt50 == 1125899906

\* n 2^(e - 155) as a float32, for 0 < n < 2^29.
RECURSIVE Normalised(_, _)
Normalised(n, e) ==
    IF n < 32 * Hidden THEN Normalised(2 * n, e - 1)
    ELSE Float32(HalfEven(n, 5), e)

\* The float32 difference a - b for a >= b >= 0 (five guard bits, the bits
\* of b shifted out borrowed as a sticky last bit).
F32Sub(a, b) ==
    IF b = 0 THEN a
    ELSE IF a = b THEN 0
    ELSE LET d == Exponent(a) - Exponent(b)
             whole == Mantissa(a) * 32
             part == Mantissa(b) * 32
             q == part \div 2 ^ d
             f == whole - q - 1
             n == IF d > 28 THEN whole - 1
                  ELSE IF part % 2 ^ d = 0 THEN whole - q
                  ELSE IF f % 2 = 1 THEN f ELSE f + 1
         IN  Normalised(n, Exponent(a))

\* The float32 product of two float32, the 48-bit product of the
\* significands formed in halves of 12 bits.
F32Product(a, b) ==
    IF a = 0 \/ b = 0 THEN 0
    ELSE LET ah == Mantissa(a) \div 4096
             al == Mantissa(a) % 4096
             bh == Mantissa(b) \div 4096
             bl == Mantissa(b) % 4096
             mid == ah * bl + al * bh
             low == (mid % 4096) * 4096 + al * bl
             high == ah * bh + mid \div 4096 + low \div (2 * Hidden)
             rest == low % (2 * Hidden)
             e == Exponent(a) + Exponent(b) - 127
             m == 2 * high + rest \div Hidden
             r == rest % Hidden
         IN  IF high >= Hidden
             THEN Float32(IF rest > Hidden \/ (rest = Hidden /\ high % 2 = 1)
                          THEN high + 1 ELSE high, e + 1)
             ELSE Float32(IF 2 * r > Hidden \/ (2 * r = Hidden /\ m % 2 = 1)
                          THEN m + 1 ELSE m, e)

\* One step of the long division: seven more bits of the quotient.
DivStep(s, d) ==
    [q |-> s.q * 128 + (s.r * 128) \div d, r |-> (s.r * 128) % d]

\* The float32 quotient a / b for a >= 0 and b > 0: 28 bits of the quotient
\* of the significands and a sticky bit for the remainder.
F32Div(a, b) ==
    IF a = 0 THEN 0
    ELSE LET d == Mantissa(b)
             s == DivStep(DivStep(DivStep(DivStep(
                      [q |-> Mantissa(a) \div d, r |-> Mantissa(a) % d],
                      d), d), d), d)
             n == IF s.r = 0 \/ s.q % 2 = 1 THEN s.q ELSE s.q + 1
             e == Exponent(a) - Exponent(b)
         IN  IF n >= 32 * Hidden
             THEN Float32(HalfEven(n, 5), e + 127)
             ELSE Float32(HalfEven(n, 4), e + 126)

\* max_val + 1e-6 as it divides a float32: the sum is a Python float (a
\* double) and is rounded to float32 by the division.  For f = 0 or
\* 2^-24 <= f < 2^7.
F32AddEps(f) ==
    IF f = 0 THEN EpsF32
    ELSE LET s == Mantissa(f) * 8 + EpsAt50 \div 2 ^ (Exponent(f) - 103)
             n == IF s % 2 = 1 THEN s ELSE s + 1
             t == IF n < 16 * Hidden THEN 0 ELSE 1
         IN  Float32(HalfEven(Sticky(n, t), 3), Exponent(f) + t)

\* (max_val - smoothed[best_idx]) / (max_val + 1e-6), max_val being the
\* greatest value of the search slice: a float32 difference divided by the
\* float32 nearest to the double sum.  A negative value is held as the
\* negated bit pattern of its magnitude.
Confidence(max_val, valley_value) ==
    IF valley_value <= max_val
    THEN F32Div(F32Sub(max_val, valley_value), F32AddEps(max_val))
    ELSE 0 - F32Div(F32Sub(valley_value, max_val), F32AddEps(max_val))

\* Taps of the 9-tap Gaussian kernel cv2 builds for sigma = 1.0 (ksize (0,0)
\* on float data), as float32: 0.39894348, 0.24197145, 0.053991128,
\* 0.0044318615, 0.00013383062.
KernelRadius == 4
Kernel(k) ==
    CASE Abs(k) = 0 -> 1053573714
      [] Abs(k) = 1 -> 1048037213
      [] Abs(k) = 2 -> 1029514701
      [] Abs(k) = 3 -> 999373094
      [] Abs(k) = 4 -> 957109474

\* sum + f * p with one rounding (a fused multiply-add), for a float32 sum
\* >= 0, a float32 f > 0 and a count p < 8: the product is formed exactly,
\* the operand of lower exponent is shifted under the other one, the bits
\* shifted out kept as a sticky last bit below three guard bits.
F32Fma(sum, f, p) ==
    IF p = 0 THEN sum
    ELSE IF sum = 0 THEN F32Mul(f, p)
    ELSE LET n == Mantissa(f) * p
             d == Exponent(sum) - Exponent(f)
             wide == IF d >= 0 THEN Mantissa(sum) * 2 ^ d + n
                     ELSE n * 2 ^ (0 - d) + Mantissa(sum)
             over == Mantissa(sum) * 8
                     + (IF d > 30 THEN 1 ELSE Sticky(n, d - 3))
             under == n * 8
                      + (IF d < -27 THEN 1 ELSE Sticky(Mantissa(sum), 0 - d - 3))
         IN  IF d >= 0 /\ d <= 3
             THEN Float32(HalfEven(wide, ExcessBits(wide)),
                          Exponent(f) + ExcessBits(wide))
             ELSE IF d >= -3 /\ d < 0
             THEN Float32(HalfEven(wide, ExcessBits(wide)),
                          Exponent(sum) + ExcessBits(wide))
             ELSE IF d > 3
             THEN Float32(HalfEven(over, ExcessBits(over)),
                          Exponent(sum) - 3 + ExcessBits(over))
             ELSE Float32(HalfEven(under, ExcessBits(under)),
                          Exponent(f) - 3 + ExcessBits(under))

\* The row filter adds the products tap by tap; a build that fuses rounds
\* each sum once, any other build rounds the product and then the sum.
RECURSIVE Convolve(_, _, _, _, _)
Convolve(projection, x, k, sum, fma) ==
    IF k > KernelRadius THEN sum
    ELSE LET p == projection[Clip(x + k, 0, Len(projection) - 1) + 1]
         IN  Convolve(projection, x, k + 1,
                      IF fma THEN F32Fma(sum, Kernel(k), p)
                      ELSE F32Add(sum, F32Mul(Kernel(k), p)),
                      fma)

\* cv2.GaussianBlur(..., sigmaX = max(width / 200, 1.0), BORDER_REPLICATE);
\* sigma is 1.0 for every width up to 200.  The array has one row, for which
\* cv2 takes a column kernel of one tap, 1.0.
GaussianBlur(projection, fma) ==
    LET seq == [i \in 1..Cardinality(DOMAIN projection) |-> projection[i - 1]]
    IN  [x \in DOMAIN projection |->
            Convolve(seq, x, 0 - KernelRadius, 0, fma)]

RECURSIVE CollectFrom(_, _, _)
CollectFrom(data, idx, stop) ==
    IF idx >= stop THEN << >>
    ELSE (IF data[idx] <= data[idx - 1] /\ data[idx] <= data[idx + 1]
          THEN <<idx>> ELSE << >>)
         \o CollectFrom(data, idx + 1, stop)

\* Variant: only strict local minima are collected.
_collect_valleys_Strict(data, start, end) ==
    LET lo == Max(start, 1)
        hi == Min(end, Cardinality(DOMAIN data) - 1)
    IN  SelectSeq([i \in 1..Max(hi - lo, 0) |-> lo + i - 1],
                  LAMBDA idx : /\ data[idx] < data[idx - 1]
                               /\ data[idx] < data[idx + 1])

_collect_valleys(data, start, end) ==
    CollectFrom(data, Max(start, 1), Min(end, Cardinality(DOMAIN data) - 1))

\* int(np.argmin(search_slice)) + edge_margin: the first minimum.
ArgMin(data, start, end) ==
    CHOOSE i \in start..(end - 1) :
        /\ \A j \in start..(end - 1) : data[i] <= data[j]
        /\ \A j \in start..(i - 1) : data[j] > data[i]

\* np.cumsum(smoothed)[x]: the float32 running sum.
RECURSIVE CumSum(_, _)
CumSum(data, x) ==
    IF x = 0 THEN data[0] ELSE F32Add(CumSum(data, x - 1), data[x])

\* Variant: score <= best_score.
ScoreLess_Inclusive(score, best_score) == score <= best_score

\* score < best_score
ScoreLess(score, best_score) == score < best_score

\* The score of candidate idx, every step in float32:
\*   left_ratio = float(cumulative[idx]) / (total + 1e-6)
\*   balance_score = abs(left_ratio - 0.5)
\*   depth_score = valley_value / (max_val + 1e-6)
\*   score = balance_score + 0.1 * depth_score
Score(smoothed, cumulative, total, max_val, idx) ==
    LET valley_value == smoothed[idx]
        left_ratio == F32Div(cumulative[idx], F32Add(total, EpsF32))
        balance_score == IF left_ratio >= HalfF32
                         THEN F32Sub(left_ratio, HalfF32)
                         ELSE F32Sub(HalfF32, left_ratio)
        depth_score == F32Div(valley_value, F32AddEps(max_val))
    IN  F32Add(balance_score, F32Product(TenthF32, depth_score))

\* The loop over the candidates: best_idx starts at candidates[0] with
\* best_score = inf and moves on a strictly smaller score.
RECURSIVE BestCandidate(_, _, _, _, _, _, _, _)
BestCandidate(candidates, i, best_idx, best_score, smoothed, cumulative, total, max_val) ==
    IF i > Len(candidates) THEN best_idx
    ELSE LET idx == candidates[i]
             score == Score(smoothed, cumulative, total, max_val, idx)
             better == ScoreLess(score, best_score)
         IN  BestCandidate(candidates, i + 1,
                           IF better THEN idx ELSE best_idx,
                           IF better THEN score ELSE best_score,
                           smoothed, cumulative, total, max_val)

\* Variant: the lower limit of 5 columns left out.
EdgeMargin_NoMinimum(width, cfg) ==
    IntOfProduct(cfg.edge_exclusion_ratio, width)

\* max(int(width * config.edge_exclusion_ratio), 5)
EdgeMargin(width, cfg) ==
    Max(IntOfProduct(cfg.edge_exclusion_ratio, width), 5)

\* Variant: valleys are collected over the whole projection.
Candidates_Unwindowed(smoothed, edge_margin, width) ==
    LET valleys == _collect_valleys(smoothed, 0, width)
    IN  IF valleys = << >>
        THEN << ArgMin(smoothed, edge_margin, width - edge_margin) >>
        ELSE valleys

Candidates(smoothed, edge_margin, width) ==
    LET valleys == _collect_valleys(smoothed, edge_margin, width - edge_margin)
    IN  IF valleys = << >>
        THEN << ArgMin(smoothed, edge_margin, width - edge_margin) >>
        ELSE valleys

NoCandidate == [column |-> NoneX, confidence |-> 0]

\* Variant: the confidence is the height of the valley, not its depth.
_locate_split_ShallowConfident(m, cfg, fma) ==
    LET width == Width(m)
        projection == Projection(m)
        smoothed == GaussianBlur(projection, fma)
        edge_margin == EdgeMargin(width, cfg)
        candidates == Candidates(smoothed, edge_margin, width)
        cumulative == [x \in DOMAIN smoothed |-> CumSum(smoothed, x)]
        total == cumulative[width - 1]
        max_val == SetMax({ smoothed[x] :
                              x \in edge_margin..(width - edge_margin - 1) })
        best_idx == BestCandidate(candidates, 1, candidates[1], Infinity,
                                  smoothed, cumulative, total, max_val)
    IN  IF \A x \in DOMAIN projection : projection[x] <= 0
        THEN NoCandidate
        ELSE IF edge_margin * 2 >= width
        THEN NoCandidate
        ELSE [column |-> best_idx,
              confidence |-> F32Div(smoothed[best_idx], F32AddEps(max_val))]

\* Variant: a collapsed window answers the centre column instead of None.
_locate_split_CollapsedGuess(m, cfg, fma) ==
    LET width == Width(m)
        projection == Projection(m)
        smoothed == GaussianBlur(projection, fma)
        edge_margin == EdgeMargin(width, cfg)
        candidates == Candidates(smoothed, edge_margin, width)
        cumulative == [x \in DOMAIN smoothed |-> CumSum(smoothed, x)]
        total == cumulative[width - 1]
        max_val == SetMax({ smoothed[x] :
                              x \in edge_margin..(width - edge_margin - 1) })
        best_idx == BestCandidate(candidates, 1, candidates[1], Infinity,
                                  smoothed, cumulative, total, max_val)
    IN  IF \A x \in DOMAIN projection : projection[x] <= 0
        THEN NoCandidate
        ELSE IF edge_margin * 2 >= width
        THEN [column |-> width \div 2, confidence |-> 0]
        ELSE [column |-> best_idx,
              confidence |-> Confidence(max_val, smoothed[best_idx])]

\* (split_x, float(confidence)) for the mask m, config cfg and a build of
\* cv2 that fuses (fma) or does not; the search slice is never empty once
\* edge_margin * 2 < width.
_locate_split(m, cfg, fma) ==
    LET width == Width(m)
        projection == Projection(m)
        smoothed == GaussianBlur(projection, fma)
        edge_margin == EdgeMargin(width, cfg)
        candidates == Candidates(smoothed, edge_margin, width)
        cumulative == [x \in DOMAIN smoothed |-> CumSum(smoothed, x)]
        total == cumulative[width - 1]
        max_val == SetMax({ smoothed[x] :
                              x \in edge_margin..(width - edge_margin - 1) })
        best_idx == BestCandidate(candidates, 1, candidates[1], Infinity,
                                  smoothed, cumulative, total, max_val)
    IN  IF \A x \in DOMAIN projection : projection[x] <= 0
        THEN NoCandidate
        ELSE IF edge_margin * 2 >= width
        THEN NoCandidate
        ELSE [column |-> best_idx,
              confidence |-> Confidence(max_val, smoothed[best_idx])]

NoLocals ==
    [edge_margin |-> 0, smoothed |-> << >>, candidates |-> << >>,
     cumulative |-> << >>, total |-> 0, max_val |-> 0]

\* The helper _locate_split invokes once it is past its early returns.
ValleyCalls(locals) ==
    IF locals = NoLocals THEN {} ELSE {"_collect_valleys"}

\* The locals of _locate_split when it reaches its last return; smoothed,
\* cumulative, total and max_val are float32 bit patterns.
LocatorLocals(m, cfg, fma) ==
    LET width == Width(m)
        projection == Projection(m)
        smoothed == GaussianBlur(projection, fma)
        edge_margin == EdgeMargin(width, cfg)
        cumulative == [x \in DOMAIN smoothed |-> CumSum(smoothed, x)]
    IN  IF \A x \in DOMAIN projection : projection[x] <= 0
        THEN NoLocals
        ELSE IF edge_margin * 2 >= width
        THEN NoLocals
        ELSE [edge_margin |-> edge_margin,
              smoothed |-> smoothed,
              candidates |-> Candidates(smoothed, edge_margin, width),
              cumulative |-> cumulative,
              total |-> cumulative[width - 1],
              max_val |-> SetMax({ smoothed[x] :
                            x \in edge_margin..(width - edge_margin - 1) })]

-----------------------------------------------------------------------------
(* split_image *)

Ratio(n, d) == [num |-> n, den |-> d]

NoResult ==
    [mode |-> "none", split_x |-> NoneX, confidence |-> 0,
     content_width_ratio |-> Ratio(0, 1), pages |-> << >>, reason |-> ""]

SplitResult(mode, split_x, confidence, content_width_ratio, pages, reason) ==
    [mode |-> mode, split_x |-> split_x, confidence |-> confidence,
     content_width_ratio |-> content_width_ratio, pages |-> pages,
     reason |-> reason]

SkipResult(reason) ==
    SplitResult("skip", NoneX, 0, Ratio(0, 1), << >>, reason)

\* Variant: the comparison made inclusive.
AspectSkip_Inclusive(img, cfg) == img.w * Milli <= img.h * cfg.min_aspect_ratio

\* width < height * config.min_aspect_ratio
AspectSkip(img, cfg) == img.w * Milli < img.h * cfg.min_aspect_ratio

\* Variant: no image is skipped for its foreground.
NoForeground_NeverSkips(m, cfg) == FALSE

\* Variant: only the emptiness test.
NoForeground_EmptyOnly(m, cfg) == ~MaskAny(m)

\* Variant: only the ratio test.
NoForeground_RatioOnly(m, cfg) ==
    Cardinality(TruePixels(m)) * Milli
      < cfg.min_foreground_ratio * (Height(m) * Width(m))

\* foreground_ratio < config.min_foreground_ratio or not mask.any()
NoForeground(m, cfg) ==
    \/ Cardinality(TruePixels(m)) * Milli
         < cfg.min_foreground_ratio * (Height(m) * Width(m))
    \/ ~MaskAny(m)

\* Variant: the height condition left out.
IsCover_WidthOnly(box, img, cfg) ==
    (box[3] - box[1]) * Milli < cfg.cover_content_ratio * img.w

\* content_width_ratio < config.cover_content_ratio and bbox_height_ratio > 0.8
IsCover(box, img, cfg) ==
    /\ (box[3] - box[1]) * Milli < cfg.cover_content_ratio * img.w
    /\ (box[4] - box[2]) * 10 > 8 * img.h

PaddingX(img, cfg) == Max(1, IntOfProduct(cfg.padding_ratio, img.w))
\* Variant: the vertical padding taken from the width.
PaddingY_FromWidth(img, cfg) == Max(1, IntOfProduct(cfg.padding_ratio, img.w))

PaddingY(img, cfg) == Max(1, IntOfProduct(cfg.padding_ratio, img.h))

\* confidence < config.confidence_threshold: the float32 returned by the
\* locator against the threshold, compared as a Mantissa / 2^t with the
\* thousandths.
BelowThreshold(confidence, cfg) ==
    LET k == cfg.confidence_threshold
        t == 150 - Exponent(confidence)
    IN  IF confidence < 0 THEN TRUE
        ELSE IF confidence = 0 THEN k > 0
        ELSE IF t <= 30 THEN FracLess(Mantissa(confidence), 2 ^ t, k, Milli)
        ELSE IF t >= 40 THEN k > 0
        ELSE FracLess(Mantissa(confidence), 2 ^ 30, k * 2 ^ (t - 30), Milli)

\* Variant: a confidence equal to the threshold falls back too.
FallsBack_Inclusive(loc, cfg) ==
    LET k == cfg.confidence_threshold
        t == 150 - Exponent(loc.confidence)
    IN  \/ loc.column = NoneX
        \/ loc.confidence <= 0
        \/ IF t <= 30
           THEN ~FracLess(k, Milli, Mantissa(loc.confidence), 2 ^ t)
           ELSE IF t >= 40 THEN k > 0
           ELSE ~FracLess(k * 2 ^ (t - 30), Milli,
                          Mantissa(loc.confidence), 2 ^ 30)

\* Variant: only a missing column falls back.
FallsBack_NoneOnly(loc, cfg) == loc.column = NoneX

\* split_x is None or confidence < config.confidence_threshold
FallsBack(loc, cfg) ==
    loc.column = NoneX \/ BelowThreshold(loc.confidence, cfg)

\* max(confidence, 0.0)
ClampConfidence(confidence) == Max(confidence, 0)

NoEarlier ==
    [set |-> FALSE, image |-> [h |-> 0, w |-> 0, blocks |-> << >>],
     config |-> DefaultConfig, bbox |-> <<0, 0, 0, 0>>, padding |-> <<0, 0>>,
     located |-> NoCandidate, probe |-> NoLocals, result |-> NoResult]

\* The parsed options of split_cli, ratios in thousandths.
CliArgs ==
    { [padding_ratio |-> pr,
       cover_threshold |-> DefaultConfig.cover_content_ratio,
       confidence_threshold |-> ct,
       edge_exclusion |-> DefaultConfig.edge_exclusion_ratio,
       min_foreground |-> DefaultConfig.min_foreground_ratio,
       overwrite |-> ow, dry_run |-> dr] :
        pr \in {DefaultConfig.padding_ratio, 1500},
        ct \in {DefaultConfig.confidence_threshold, 0},
        ow \in BOOLEAN, dr \in BOOLEAN }

DefaultArgs ==
    CHOOSE a \in CliArgs :
        /\ a.padding_ratio = DefaultConfig.padding_ratio
        /\ a.confidence_threshold = DefaultConfig.confidence_threshold
        /\ ~a.overwrite /\ ~a.dry_run

Sources ==
    { [stem |-> "p01", suffix |-> ".png"], [stem |-> "p02", suffix |-> ".jpg"] }

_make_config(args) ==
    SplitConfig(DefaultConfig.min_aspect_ratio, args.padding_ratio,
                args.confidence_threshold, args.cover_threshold,
                args.edge_exclusion, args.min_foreground)

\* zip(result.pages, names) with _write_page on each pair: FileExistsError
\* when the target exists and overwrite is off.
RECURSIVE WritePages(_, _, _, _, _)
WritePages(pages, names, i, overwrite, st) ==
    IF i > Min(Len(pages), Len(names)) THEN st
    ELSE IF names[i] \in st.files /\ ~overwrite
    THEN [st EXCEPT !.raised = TRUE]
    ELSE WritePages(pages, names, i + 1, overwrite,
                    [files |-> st.files \cup {names[i]},
                     outputs |-> Append(st.outputs, names[i]),
                     written |-> Append(st.written,
                                        [name |-> names[i], page |-> pages[i]]),
                     raised |-> FALSE])

\* Variant: the left page is written first.
_export_result_LeftFirst(res, source, files, overwrite) ==
    LET suffix == IF source.suffix = "" THEN ".png" ELSE source.suffix
        start == [files |-> files, outputs |-> << >>, written |-> << >>,
                  raised |-> FALSE]
    IN  IF res.mode = "skip" THEN start
        ELSE IF res.mode = "cover-trim"
        THEN WritePages(<< res.pages[1] >>,
                        << source.stem \o "_cover" \o suffix >>,
                        1, overwrite, start)
        ELSE IF res.pages = << >> THEN start
        ELSE WritePages(res.pages,
                        << source.stem \o "_L" \o suffix,
                           source.stem \o "_R" \o suffix >>,
                        1, overwrite, start)

_export_result(res, source, files, overwrite) ==
    LET suffix == IF source.suffix = "" THEN ".png" ELSE source.suffix
        start == [files |-> files, outputs |-> << >>, written |-> << >>,
                  raised |-> FALSE]
    IN  IF res.mode = "skip" THEN start
        ELSE IF res.mode = "cover-trim"
        THEN WritePages(<< res.pages[1] >>,
                        << source.stem \o "_cover" \o suffix >>,
                        1, overwrite, start)
        ELSE IF res.pages = << >> THEN start
        ELSE WritePages(res.pages,
                        << source.stem \o "_R" \o suffix,
                           source.stem \o "_L" \o suffix >>,
                        1, overwrite, start)

NoExport ==
    [source |-> [stem |-> "", suffix |-> ""], args |-> DefaultArgs,
     files |-> {}, outputs |-> << >>, written |-> << >>,
     todo |-> << >>, items |-> << >>]

SplitterIdle ==
    /\ pc = "idle"
    /\ image = [h |-> 0, w |-> 0, blocks |-> << >>]
    /\ config = DefaultConfig
    /\ mask = << >>
    /\ bbox = <<0, 0, 0, 0>>
    /\ padding = <<0, 0>>
    /\ located = NoCandidate
    /\ result = NoResult
    /\ calls = {}
    /\ probe = NoLocals
    /\ views = {}
    /\ painted = 0
    /\ earlier = NoEarlier
    /\ cli = NoExport

\* The module-level state of main.py after import, MAX_CONCURRENCY = limit.
ServiceIdle(limit) ==
    /\ jobs = << >>
    /\ tasks = << >>
    /\ waiters = << >>
    /\ permits = limit
    /\ max_concurrency = limit
    /\ cancelled = {}
    /\ reply = 0

\* REICHAN_MAX_CONCURRENCY defaults to "1"; the build of cv2 is any.
Init == SplitterIdle /\ ServiceIdle(1) /\ fused \in BOOLEAN

\* A caller invokes split_image(image, config = cfg).
Call(img, cfg) ==
    /\ pc = "idle"
    /\ pc' = "aspect"
    /\ image' = img
    /\ config' = cfg
    /\ UNCHANGED <<mask, bbox, padding, located, result, calls>>
    /\ UNCHANGED <<probe, views, caller, elsewhere>>

\* Variant: the mask is built before the aspect-ratio rule is applied.
AspectRatioRule_MaskFirst ==
    /\ pc = "aspect"
    /\ calls' = calls \cup {"_build_foreground_mask"}
    /\ IF ZeroArea(image)
       THEN /\ pc' = "raised"
            /\ UNCHANGED <<mask, result>>
       ELSE /\ mask' = _build_foreground_mask(image)
            /\ IF AspectSkip(image, config)
               THEN /\ result' = SkipResult("aspect_ratio")
                    /\ pc' = "done"
               ELSE /\ pc' = "mask"
                    /\ UNCHANGED result
    /\ UNCHANGED <<image, config, bbox, padding, located>>
    /\ UNCHANGED <<probe, views, caller, elsewhere>>

\* height, width = image.shape[:2] and the aspect-ratio rule.
AspectRatioRule ==
    /\ pc = "aspect"
    /\ IF AspectSkip(image, config)
       THEN /\ result' = SkipResult("aspect_ratio")
            /\ pc' = "done"
       ELSE /\ pc' = "mask"
            /\ UNCHANGED result
    /\ UNCHANGED <<image, config, mask, bbox, padding, located, calls>>
    /\ UNCHANGED <<probe, views, caller, elsewhere>>

\* mask = _build_foreground_mask(image) and the no-foreground rule.  cv2
\* rejects an empty array (cv2.error from cvtColor / GaussianBlur).
ForegroundRule ==
    /\ pc = "mask"
    /\ calls' = calls \cup {"_build_foreground_mask"}
    /\ IF ZeroArea(image)
       THEN /\ pc' = "raised"
            /\ UNCHANGED <<mask, result>>
       ELSE /\ mask' = _build_foreground_mask(image)
            /\ IF NoForeground(mask', config)
               THEN /\ result' = SkipResult("no_foreground")
                    /\ pc' = "done"
               ELSE /\ pc' = "metrics"
                    /\ UNCHANGED result
    /\ UNCHANGED <<image, config, bbox, padding, located>>
    /\ UNCHANGED <<probe, views, caller, elsewhere>>

\* bbox = _compute_bbox(mask), the paddings and the cover rule.  min() of an
\* empty array raises ValueError.
CoverRule ==
    /\ pc = "metrics"
    /\ IF ~MaskAny(mask)
       THEN /\ pc' = "raised"
            /\ calls' = calls \cup {"_compute_bbox"}
            /\ UNCHANGED <<bbox, padding, result, views>>
       ELSE /\ bbox' = _compute_bbox(mask)
            /\ padding' = <<PaddingX(image, config), PaddingY(image, config)>>
            /\ IF IsCover(bbox', image, config)
               THEN /\ result' =
                         SplitResult("cover-trim", NoneX, OneF32,
                                     Ratio(bbox'[3] - bbox'[1], image.w),
                                     << _crop_region(image, bbox',
                                                     padding'[1], padding'[2]) >>,
                                     "")
                    /\ views' = SharedPages(result'.pages)
                    /\ calls' = calls \cup {"_compute_bbox", "_crop_region"}
                    /\ pc' = "done"
               ELSE /\ calls' = calls \cup {"_compute_bbox"}
                    /\ pc' = "locate"
                    /\ UNCHANGED <<result, views>>
    /\ UNCHANGED <<image, config, mask, located, probe, caller, elsewhere>>

\* Variant: the filter rounds in either way from one call to the next,
\* whatever the build.
LocateSplit_AnyBuild ==
    /\ pc = "locate"
    /\ \E fma \in BOOLEAN :
          /\ located' = _locate_split(mask, config, fma)
          /\ probe' = LocatorLocals(mask, config, fma)
    /\ calls' = calls \cup {"_locate_split"} \cup ValleyCalls(probe')
    /\ pc' = "extract"
    /\ UNCHANGED <<image, config, mask, bbox, padding, result>>
    /\ UNCHANGED <<views, caller, elsewhere>>

\* split_x, confidence, projection_meta = _locate_split(mask, config), with
\* the call of _collect_valleys it makes past its early returns.
LocateSplit ==
    /\ pc = "locate"
    /\ located' = _locate_split(mask, config, fused)
    /\ probe' = LocatorLocals(mask, config, fused)
    /\ calls' = calls \cup {"_locate_split"} \cup ValleyCalls(probe')
    /\ pc' = "extract"
    /\ UNCHANGED <<image, config, mask, bbox, padding, result>>
    /\ UNCHANGED <<views, caller, elsewhere>>

\* The split / fallback decision, _extract_pages and the return.
ExtractPages ==
    /\ pc = "extract"
    /\ LET fallback == FallsBack(located, config)
           split_x == IF fallback THEN image.w \div 2 ELSE located.column
           mode == IF fallback THEN "fallback-center" ELSE "split"
           confidence == IF fallback THEN ClampConfidence(located.confidence)
                         ELSE located.confidence
       IN  result' =
               SplitResult(mode, split_x, confidence,
                           Ratio(bbox[3] - bbox[1], image.w),
                           _extract_pages(image, mask, split_x,
                                          padding[1], padding[2]),
                           "")
    /\ views' = SharedPages(result'.pages)
    /\ calls' = calls \cup {"_extract_pages", "_compute_region_bbox",
                            "_crop_region"}
    /\ pc' = "done"
    /\ UNCHANGED <<image, config, mask, bbox, padding, located>>
    /\ UNCHANGED <<probe, caller, elsewhere>>

\* _locate_split(mask, config) called on its own, with the call of
\* _collect_valleys it makes; the blocks of img are the True cells of the
\* mask given.
LocateDirect(img, cfg) ==
    /\ pc = "idle"
    /\ pc' = "direct"
    /\ image' = img
    /\ config' = cfg
    /\ mask' = MaskOf(img)
    /\ located' = _locate_split(mask', cfg, fused)
    /\ probe' = LocatorLocals(mask', cfg, fused)
    /\ calls' = ValleyCalls(probe')
    /\ UNCHANGED <<bbox, padding, result, views, caller, elsewhere>>

\* The call is over (returned or raised); its arguments and locals are gone.
Return ==
    /\ pc \in {"done", "raised", "direct", "painted", "saved", "rejected",
             "failed"}
    /\ pc' = "idle"
    /\ probe' = NoLocals
    /\ views' = {}
    /\ painted' = 0
    /\ cli' = NoExport
    /\ UNCHANGED <<earlier, elsewhere>>
    /\ mask' = << >>
    /\ bbox' = <<0, 0, 0, 0>>
    /\ padding' = <<0, 0>>
    /\ located' = NoCandidate
    /\ result' = NoResult
    /\ calls' = {}
    /\ image' = [h |-> 0, w |-> 0, blocks |-> << >>]
    /\ config' = DefaultConfig

Next ==
    \/ /\ pc = "idle"
       /\ \E h \in 0..MaxH, w \in 0..MaxW :
            \E b \in InkLists(w, h), cfg \in Configs :
               Call([h |-> h, w |-> w, blocks |-> b], cfg)
    \/ /\ pc = "idle"
       /\ \E w \in 1..MaxW :
            \E b \in BlockLists(w, 1), cfg \in LocatorConfigs :
               LocateDirect([h |-> 1, w |-> w, blocks |-> b], cfg)
    \/ AspectRatioRule
    \/ ForegroundRule
    \/ CoverRule
    \/ LocateSplit
    \/ ExtractPages
    \/ Return

Spec == Init /\ [][Next]_vars

\* split_image alone: every call goes through the whole function.
NextSplit ==
    \/ /\ pc = "idle"
       /\ \E h \in 0..MaxH, w \in 0..MaxW :
            \E b \in InkLists(w, h), cfg \in Configs :
               Call([h |-> h, w |-> w, blocks |-> b], cfg)
    \/ AspectRatioRule
    \/ ForegroundRule
    \/ CoverRule
    \/ LocateSplit
    \/ ExtractPages
    \/ Return

SpecSplit == Init /\ [][NextSplit]_vars

-----------------------------------------------------------------------------
(* A caller that calls split_image repeatedly, keeps a result and may      *)
(* write to the pages it received.                                         *)

\* One-row images of the greatest width.
PoolImages ==
    { [h |-> 1, w |-> MaxW, blocks |-> b] : b \in InkLists(MaxW, 1) }

\* Images of the greatest width and half the greatest height, with a block
\* over the whole height that starts three columns from the left edge: the
\* columns of their masks sum to more than 1.
TallImages ==
    { [h |-> MaxH \div 2, w |-> MaxW,
       blocks |-> << Block(xs, <<0, MaxH \div 2>>) >>] :
        xs \in { p \in Spans(MaxW) : p[1] > 0 /\ p[2] < MaxW } }

\* The images of the caller that calls twice: the one-row images whose
\* block, if any, starts at the left edge or three columns from it, and the
\* tall images.
PairImages ==
    { img \in PoolImages :
        \A i \in DOMAIN img.blocks : img.blocks[i].x0 \in {0, 3} }
    \cup TallImages

PoolConfigs ==
    { cfg \in Configs : cfg.padding_ratio = DefaultConfig.padding_ratio }

\* One-row masks handed to _locate_split directly: five columns at the left
\* edge and, four columns from the right edge, a run of one column or more.
PoolMasks ==
    { [h |-> 1, w |-> MaxW,
       blocks |-> << Block(<<0, 5>>, <<0, 1>>),
                     Block(<<MaxW - 5, b>>, <<0, 1>>) >>] :
        b \in (MaxW - 4)..MaxW }

\* The caller fills page i of the result with ink; a page that shares the
\* pixels of the image changes the image too.
WritePage(i) ==
    /\ pc = "done"
    /\ i \in DOMAIN result.pages
    /\ pc' = "painted"
    /\ painted' = i
    /\ image' = IF i \in views
                THEN [image EXCEPT !.blocks = Append(@, result.pages[i])]
                ELSE image
    /\ UNCHANGED <<config, mask, bbox, padding, located, result, calls,
                   probe, views, earlier, cli, elsewhere>>

\* The call is over and the caller keeps what it saw of it.
Remember ==
    /\ pc \in {"done", "painted", "direct"}
    /\ pc' = "idle"
    /\ earlier' = [set |-> TRUE, image |-> image, config |-> config,
                   bbox |-> bbox, padding |-> padding, located |-> located,
                   probe |-> probe, result |-> result]
    /\ mask' = << >>
    /\ bbox' = <<0, 0, 0, 0>>
    /\ padding' = <<0, 0>>
    /\ located' = NoCandidate
    /\ result' = NoResult
    /\ calls' = {}
    /\ image' = [h |-> 0, w |-> 0, blocks |-> << >>]
    /\ config' = DefaultConfig
    /\ probe' = NoLocals
    /\ views' = {}
    /\ painted' = 0
    /\ cli' = NoExport
    /\ UNCHANGED elsewhere

NextPair ==
    \/ /\ pc = "idle"
       /\ \E img \in PairImages, cfg \in PoolConfigs : Call(img, cfg)
    \/ /\ pc = "idle"
       /\ \E img \in PoolMasks : LocateDirect(img, DefaultConfig)
    \/ AspectRatioRule
    \/ ForegroundRule
    \/ CoverRule
    \/ LocateSplit
    \/ ExtractPages
    \/ \E i \in 1..2 : WritePage(i)
    \/ Remember
    \/ Return

SpecPair == Init /\ [][NextPair]_vars

-----------------------------------------------------------------------------------------------------------------------------------------------------
(* split_cli.main: the test of the input path, the loop over the images    *)
(* found under it, with the files already present in the output directory, *)
(* and the report.                                                         *)

OutputNames(source) ==
    { source.stem \o tag \o source.suffix : tag \in {"_R", "_L", "_cover"} }

\* output_dir / "split-report.json", the report path when --report is absent.
ReportName == "split-report.json"

\* What iter_supported_images yields: no image, one, or both in sorted order.
SourceLists ==
    { << >>, << [stem |-> "p01", suffix |-> ".png"],
                [stem |-> "p02", suffix |-> ".jpg"] >> }
    \cup { << source >> : source \in Sources }

\* The locals of split_image and of the loop body are as before a call.
LoopTop ==
    /\ image' = [h |-> 0, w |-> 0, blocks |-> << >>]
    /\ mask' = << >>
    /\ bbox' = <<0, 0, 0, 0>>
    /\ padding' = <<0, 0>>
    /\ located' = NoCandidate
    /\ result' = NoResult
    /\ calls' = {}
    /\ probe' = NoLocals
    /\ views' = {}

\* What main finds at the input path: nothing, or a file or directory that
\* iter_supported_images walks.
InputPaths ==
    { [exists |-> FALSE, sources |-> << >>] }
    \cup { [exists |-> TRUE, sources |-> todo] : todo \in SourceLists }

\* main(argv) up to the loop: args = parser.parse_args(argv); when the input
\* path does not exist, parser.error ends main with SystemExit(2) before
\* anything else is done; otherwise config = _make_config(args) and
\* results = [].
CliMain(args, input_path, files) ==
    /\ pc = "idle"
    /\ IF input_path.exists
       THEN /\ pc' = "loop"
            /\ config' = _make_config(args)
            /\ cli' = [NoExport EXCEPT !.args = args, !.files = files,
                                       !.todo = input_path.sources]
       ELSE /\ pc' = "rejected"
            /\ cli' = [NoExport EXCEPT !.args = args, !.files = files]
            /\ UNCHANGED config
    /\ UNCHANGED <<image, mask, bbox, padding, located, result, calls, probe,
                   views, painted, earlier, elsewhere>>

\* The next source of the loop: image = cv2.imread(source);
\* result = split_image(image, config=config); outputs = [].
CliCall(img) ==
    /\ pc = "loop"
    /\ cli.todo # << >>
    /\ pc' = "aspect"
    /\ image' = img
    /\ cli' = [cli EXCEPT !.source = Head(cli.todo), !.todo = Tail(cli.todo),
                          !.outputs = << >>, !.written = << >>]
    /\ UNCHANGED <<config, mask, bbox, padding, located, result, calls, probe,
                   views, painted, earlier, elsewhere>>

\* cv2.imread returns None: a warning, and the loop continues.
CliUnreadable ==
    /\ pc = "loop"
    /\ cli.todo # << >>
    /\ cli' = [cli EXCEPT !.source = Head(cli.todo), !.todo = Tail(cli.todo)]
    /\ UNCHANGED <<pc, image, config, mask, bbox, padding, located, result,
                   calls, probe, views, painted, earlier, elsewhere>>

\* outputs = _export_result(result, source, output_dir, args.overwrite)
ExportResult ==
    /\ pc = "done"
    /\ ~cli.args.dry_run
    /\ LET out == _export_result(result, cli.source, cli.files,
                                 cli.args.overwrite)
       IN  /\ cli' = [cli EXCEPT !.files = out.files,
                                 !.outputs = IF out.raised THEN << >>
                                             ELSE out.outputs,
                                 !.written = out.written]
           /\ pc' = IF out.raised THEN "failed" ELSE "exported"
    /\ UNCHANGED <<image, config, mask, bbox, padding, located, result, calls,
                   probe, views, painted, earlier, elsewhere>>

\* results.append(entry): after _export_result, or after split_image when
\* --dry-run is given; the loop goes on with the next source.
CliEntry ==
    /\ \/ pc = "exported"
       \/ pc = "done" /\ cli.args.dry_run
    /\ pc' = "loop"
    /\ cli' = [cli EXCEPT !.items =
                   Append(@, [source |-> cli.source, mode |-> result.mode,
                              split_x |-> result.split_x,
                              confidence |-> result.confidence,
                              content_width_ratio |->
                                  result.content_width_ratio,
                              outputs |-> cli.outputs,
                              reason |-> result.reason])]
    /\ LoopTop
    /\ UNCHANGED <<config, painted, earlier, elsewhere>>

\* After the loop: report_path.write_text(json.dumps({"items": results})),
\* whatever --overwrite and --dry-run say.
SaveReport ==
    /\ pc = "loop"
    /\ cli.todo = << >>
    /\ pc' = "saved"
    /\ cli' = [cli EXCEPT !.files = @ \cup {ReportName}]
    /\ UNCHANGED <<image, config, mask, bbox, padding, located, result, calls,
                   probe, views, painted, earlier, elsewhere>>

\* main is over: it returned 0 after the report, or parser.error or an
\* exception of split_image or _write_page ended it before.
CliReturn ==
    /\ pc \in {"saved", "rejected", "raised", "failed"}
    /\ Return

NextCli ==
    \/ /\ pc = "idle"
       /\ \E args \in CliArgs, input_path \in InputPaths :
            \E files \in {{}} \cup { {n} : n \in UNION {
                              OutputNames(input_path.sources[i]) :
                                  i \in DOMAIN input_path.sources } } :
               CliMain(args, input_path, files)
    \/ /\ pc = "loop"
       /\ \E img \in PoolImages : CliCall(img)
    \/ CliUnreadable
    \/ AspectRatioRule
    \/ ForegroundRule
    \/ CoverRule
    \/ LocateSplit
    \/ ExtractPages
    \/ ExportResult
    \/ CliEntry
    \/ SaveReport
    \/ CliReturn

SpecCli == Init /\ [][NextCli]_vars

-----------------------------------------------------------------------------
(* main.py: the job service.  All coroutines run on one event loop, so a   *)
(* coroutine is interrupted only at an await that suspends: acquire() of   *)
(* a taken worker_semaphore and the to_thread call of execute_job.  The    *)
(* bodies under jobs_lock contain no await, so jobs_lock is free whenever  *)
(* a coroutine runs and acquiring it never suspends.                       *)

None == "None"
\* None in a field that holds a path (paths are sequences of their parts).
NoPath == << >>
JobIds == 1..MaxJobs
TaskIds == 1..MaxTasks

_estimate_total_frames(input_type) == IF input_type = "zip" THEN 24 ELSE 48

\* JobRecord(payload = payload, total = total)
JobRecord(total) ==
    [status |-> "PENDING", processed |-> 0,
     total |-> total, artifact_path |-> NoPath, message |-> None, retries |-> 0,
     last_error |-> None, artifact_hash |-> None, report_path |-> NoPath]

\* Paths are sequences of their parts.
STORAGE_ROOT == <<"storage">>
OUTPUTS_DIR == STORAGE_ROOT \o <<"outputs">>
ARTIFACTS_DIR == STORAGE_ROOT \o <<"artifacts">>

\* The file system as Path.resolve() sees it: the directories that are
\* symbolic links, with their targets.  STORAGE_ROOT is resolved at import;
\* the directories under it are created with exist_ok = True, which keeps a
\* link that is already there.
FileSystems ==
    { {}, { [link |-> ARTIFACTS_DIR, target |-> <<"mnt", "artifacts">>] } }

\* Path.resolve(): part by part, '..' goes to the parent of what is resolved
\* so far and a symbolic link is replaced by its target.
RECURSIVE ResolveFrom(_, _, _, _)
ResolveFrom(path, i, done, fs) ==
    IF i > Len(path) THEN done
    ELSE LET next == IF path[i] = ".."
                     THEN SubSeq(done, 1, Len(done) - 1)
                     ELSE Append(done, path[i])
         IN  ResolveFrom(path, i + 1,
                         IF \E l \in fs : l.link = next
                         THEN (CHOOSE l \in fs : l.link = next).target
                         ELSE next,
                         fs)

Resolve(path, fs) == ResolveFrom(path, 1, << >>, fs)

\* Variant: the path is compared as it is written, without resolve().
IsUnder_Unresolved(path, root, fs) ==
    /\ Len(root) <= Len(path)
    /\ SubSeq(path, 1, Len(root)) = root

\* path.resolve().relative_to(root) succeeds when root is a prefix of the
\* resolved path.
IsUnder(path, root, fs) ==
    LET resolved == Resolve(path, fs)
    IN  /\ Len(root) <= Len(resolved)
        /\ SubSeq(resolved, 1, Len(root)) = root

RelativeTo(path, root, fs) ==
    LET resolved == Resolve(path, fs)
    IN  SubSeq(resolved, Len(root) + 1, Len(resolved))

\* What execute_job can return (the archive is written to
\* paths.artifacts_dir, the report to paths.outputs_dir), and the texts of
\* what it can raise.
Results ==
    { [processed |-> 1, total |-> 1,
       artifact_path |-> ARTIFACTS_DIR \o <<"vol.zip">>,
       artifact_hash |-> "sha",
       report_path |-> OUTPUTS_DIR \o <<"artifact-report.json">>] }
Errors == { "No images found in staged payload" }

\* asyncio.create_task(_run_job(job_id))
NewTask(job_id) ==
    [job |-> job_id, at |-> "created"]

\* The assignments of _mark_running under jobs_lock.
_mark_running(record) ==
    [record EXCEPT !.status = "RUNNING", !.total = 0, !.message = None,
                   !.last_error = None, !.processed = 0,
                   !.artifact_path = NoPath, !.artifact_hash = None,
                   !.report_path = NoPath]

\* The assignments of _store_success under jobs_lock; the resolved paths
\* are stored relative to STORAGE_ROOT.
_store_success(record, res, fs) ==
    [record EXCEPT !.status = "SUCCESS", !.processed = res.processed,
                   !.total = res.total,
                   !.artifact_path =
                       RelativeTo(res.artifact_path, STORAGE_ROOT, fs),
                   !.artifact_hash = res.artifact_hash, !.message = None,
                   !.last_error = None,
                   !.report_path =
                       IF IsUnder(res.report_path, STORAGE_ROOT, fs)
                       THEN RelativeTo(res.report_path, STORAGE_ROOT, fs)
                       ELSE NoPath]

\* Variant: the text is stored as the message only.
_mark_failed_MessageOnly(record, message) ==
    [record EXCEPT !.status = "FAILED", !.message = message]

\* The assignments of _mark_failed under jobs_lock.
_mark_failed(record, message) ==
    [record EXCEPT !.status = "FAILED", !.message = message,
                   !.last_error = message]

\* The assignments of _update_progress under jobs_lock.
_update_progress(record, processed, total) ==
    [record EXCEPT !.processed = processed, !.total = total]

\* Semaphore.locked()
Locked == permits = 0 \/ waiters # << >>

\* Semaphore._wake_up_next(): the first waiter whose future is not done.
NextWaiter(ts, ws) ==
    LET open == { i \in DOMAIN ws : ts[ws[i]].at = "waiting" }
    IN  IF open = {} THEN 0
        ELSE ws[CHOOSE i \in open : \A k \in open : i <= k]

\* Semaphore.release() followed by _wake_up_next(), on the task table ts.
Release(ts) ==
    LET t == NextWaiter(ts, waiters)
    IN  IF t = 0
        THEN /\ permits' = permits + 1
             /\ tasks' = ts
        ELSE /\ permits' = permits
             /\ tasks' = [ts EXCEPT ![t].at = "woken"]

\* POST /jobs
create_job(input_type) ==
    /\ Len(jobs) < MaxJobs
    /\ Len(tasks) < MaxTasks
    /\ jobs' = Append(jobs, JobRecord(_estimate_total_frames(input_type)))
    /\ tasks' = Append(tasks, NewTask(Len(jobs) + 1))
    /\ reply' = 202
    /\ UNCHANGED <<waiters, permits, max_concurrency, cancelled, splitter>>

\* Variant: a RUNNING job is restarted like any other.
resume_job_NoRunningCheck(job_id) ==
    IF job_id \notin DOMAIN jobs
    THEN /\ reply' = 404
         /\ UNCHANGED <<jobs, tasks, waiters, permits, max_concurrency,
                        cancelled, splitter>>
    ELSE /\ Len(tasks) < MaxTasks
         /\ jobs' = [jobs EXCEPT ![job_id] =
                       [@ EXCEPT !.retries = @ + 1, !.status = "PENDING",
                                 !.message = None, !.last_error = None,
                                 !.processed = 0, !.total = 0,
                                 !.artifact_path = NoPath,
                                 !.artifact_hash = None,
                                 !.report_path = NoPath]]
         /\ tasks' = Append(tasks, NewTask(job_id))
         /\ cancelled' = cancelled \ {job_id}
         /\ reply' = 200
         /\ UNCHANGED <<waiters, permits, max_concurrency, splitter>>

\* POST /jobs/{job_id}/resume without payload
resume_job(job_id) ==
    IF job_id \notin DOMAIN jobs
    THEN /\ reply' = 404
         /\ UNCHANGED <<jobs, tasks, waiters, permits, max_concurrency,
                        cancelled, splitter>>
    ELSE IF jobs[job_id].status = "RUNNING"
    THEN /\ reply' = 200
         /\ UNCHANGED <<jobs, tasks, waiters, permits, max_concurrency,
                        cancelled, splitter>>
    ELSE /\ Len(tasks) < MaxTasks
         /\ jobs' = [jobs EXCEPT ![job_id] =
                       [@ EXCEPT !.retries = @ + 1, !.status = "PENDING",
                                 !.message = None, !.last_error = None,
                                 !.processed = 0, !.total = 0,
                                 !.artifact_path = NoPath,
                                 !.artifact_hash = None,
                                 !.report_path = NoPath]]
         /\ tasks' = Append(tasks, NewTask(job_id))
         /\ cancelled' = cancelled \ {job_id}
         /\ reply' = 200
         /\ UNCHANGED <<waiters, permits, max_concurrency, splitter>>

\* POST /jobs/{job_id}/cancel
cancel_job(job_id) ==
    IF job_id \notin DOMAIN jobs
    THEN /\ reply' = 404
         /\ UNCHANGED <<jobs, tasks, waiters, permits, max_concurrency,
                        cancelled, splitter>>
    ELSE /\ jobs' = [jobs EXCEPT ![job_id] =
                       [@ EXCEPT !.status = "FAILED",
                                 !.message = "Cancelled by user",
                                 !.last_error = "Cancelled by user"]]
         /\ cancelled' = cancelled \cup {job_id}
         /\ reply' = 200
         /\ UNCHANGED <<tasks, waiters, permits, max_concurrency, splitter>>

\* Variant: the job is marked RUNNING before the semaphore is acquired.
StartTask_MarkFirst(t) ==
    /\ t \in DOMAIN tasks
    /\ tasks[t].at = "created"
    /\ jobs' = [jobs EXCEPT ![tasks[t].job] = _mark_running(@)]
    /\ IF Locked
       THEN /\ waiters' = Append(waiters, t)
            /\ tasks' = [tasks EXCEPT ![t].at = "waiting"]
            /\ UNCHANGED permits
       ELSE /\ permits' = permits - 1
            /\ tasks' = [tasks EXCEPT ![t].at = "executing"]
            /\ UNCHANGED waiters
    /\ UNCHANGED <<max_concurrency, cancelled, reply, splitter>>

\* _run_job starts: 'async with worker_semaphore', then _mark_running when
\* the semaphore is free, else the task queues up in acquire().
StartTask(t) ==
    /\ t \in DOMAIN tasks
    /\ tasks[t].at = "created"
    /\ IF Locked
       THEN /\ waiters' = Append(waiters, t)
            /\ tasks' = [tasks EXCEPT ![t].at = "waiting"]
            /\ UNCHANGED <<jobs, permits>>
       ELSE /\ permits' = permits - 1
            /\ jobs' = [jobs EXCEPT ![tasks[t].job] = _mark_running(@)]
            /\ tasks' = [tasks EXCEPT ![t].at = "executing"]
            /\ UNCHANGED waiters
    /\ UNCHANGED <<max_concurrency, cancelled, reply, splitter>>

\* A woken waiter leaves acquire(), wakes the next waiter when the counter
\* is positive, and goes on to _mark_running.
WakeTask(t) ==
    /\ t \in DOMAIN tasks
    /\ tasks[t].at = "woken"
    /\ LET rest == SelectSeq(waiters, LAMBDA w : w # t)
           next == IF permits > 0 THEN NextWaiter(tasks, rest) ELSE 0
       IN  /\ waiters' = rest
           /\ permits' = IF next # 0 THEN permits - 1 ELSE permits
           /\ tasks' = [i \in DOMAIN tasks |->
                          IF i = t THEN [tasks[i] EXCEPT !.at = "executing"]
                          ELSE IF i = next THEN [tasks[i] EXCEPT !.at = "woken"]
                          ELSE tasks[i]]
    /\ jobs' = [jobs EXCEPT ![tasks[t].job] = _mark_running(@)]
    /\ UNCHANGED <<max_concurrency, cancelled, reply, splitter>>

\* The progress callback of the worker thread: (0, total), then (i, total).
Progress(t, processed, total) ==
    /\ t \in DOMAIN tasks
    /\ tasks[t].at = "executing"
    /\ jobs' = [jobs EXCEPT ![tasks[t].job] =
                  _update_progress(@, processed, total)]
    /\ UNCHANGED <<tasks, waiters, permits, max_concurrency, cancelled, reply,
                   splitter>>

\* execute_job returns res while the file system is fs: _store_success, and
\* the semaphore is released on leaving 'async with'; an artifact that
\* resolves outside STORAGE_ROOT makes _store_success raise RuntimeError,
\* which _run_job turns into _mark_failed after the release.
FinishReturn(t, res, fs) ==
    /\ t \in DOMAIN tasks
    /\ tasks[t].at = "executing"
    /\ Release([tasks EXCEPT ![t].at = "done"])
    /\ jobs' = [jobs EXCEPT ![tasks[t].job] =
                  IF IsUnder(res.artifact_path, STORAGE_ROOT, fs)
                  THEN _store_success(@, res, fs)
                  ELSE _mark_failed(@, "Artifact escaped storage root")]
    /\ UNCHANGED <<waiters, max_concurrency, cancelled, reply, splitter>>

\* execute_job raises: the semaphore is released, then _mark_failed(str(exc)).
FinishRaise(t, text) ==
    /\ t \in DOMAIN tasks
    /\ tasks[t].at = "executing"
    /\ Release([tasks EXCEPT ![t].at = "done"])
    /\ jobs' = [jobs EXCEPT ![tasks[t].job] = _mark_failed(@, text)]
    /\ UNCHANGED <<waiters, max_concurrency, cancelled, reply, splitter>>

\* The job service (main.py) applies no filter of cv2: no action of it reads
\* fused.
InitJobs ==
    /\ SplitterIdle
    /\ \E limit \in 1..MaxConcurrency : ServiceIdle(limit)
    /\ fused = FALSE

NextJobs ==
    \/ \E input_type \in {"folder", "zip"} : create_job(input_type)
    \/ \E job_id \in JobIds : resume_job(job_id)
    \/ \E job_id \in JobIds : cancel_job(job_id)
    \/ \E t \in TaskIds : StartTask(t)
    \/ \E t \in TaskIds : WakeTask(t)
    \/ \E t \in TaskIds, res \in Results :
          \E processed \in 0..res.total : Progress(t, processed, res.total)
    \/ \E t \in TaskIds, res \in Results, fs \in FileSystems :
          FinishReturn(t, res, fs)
    \/ \E t \in TaskIds, text \in Errors : FinishRaise(t, text)

SpecJobs == InitJobs /\ [][NextJobs]_vars

\* The event loop runs every task that is ready and execute_job ends.
TaskStep(t) ==
    \/ StartTask(t)
    \/ WakeTask(t)
    \/ \E res \in Results, fs \in FileSystems : FinishReturn(t, res, fs)
    \/ \E text \in Errors : FinishRaise(t, text)

SpecJobsFair == SpecJobs /\ \A t \in TaskIds : WF_vars(TaskStep(t))

-----------------------------------------------------------------------------
(* Properties of split_image.  The conditions are written out on the       *)
(* arguments of the call and on the mask, not through the operators of     *)
(* the model.                                                              *)

Returned == pc = "done"
\* The rectangle of the image a page shows.
Rect(page) == [x0 |-> page.x0, x1 |-> page.x1, y0 |-> page.y0, y1 |-> page.y1]
WellFormed == image.h >= 1 /\ image.w >= 1
\* The True cells (x, y) of the mask the call has built (or was given).
Foreground ==
    { p \in (0..(Width(mask) - 1)) \X (0..(Height(mask) - 1)) :
        mask[p[2]][p[1]] }
\* Something is drawn on the image.
Drawn == image.blocks # << >>
TooNarrow == image.w * Milli < image.h * config.min_aspect_ratio
TooLittleForeground ==
    LET dark == Foreground
    IN  \/ dark = {}
        \/ Cardinality(dark) * Milli
             < config.min_foreground_ratio * (image.h * image.w)
TightBox ==
    LET dark == Foreground
        xs == { p[1] : p \in dark }
        ys == { p[2] : p \in dark }
    IN  [x_min |-> SetMin(xs), x_max |-> SetMax(xs) + 1,
         y_min |-> SetMin(ys), y_max |-> SetMax(ys) + 1]
NarrowAndTall ==
    LET box == TightBox
    IN  /\ (box.x_max - box.x_min) * Milli < config.cover_content_ratio * image.w
        /\ (box.y_max - box.y_min) * 10 > 8 * image.h
PadX == IF (config.padding_ratio * image.w) \div Milli >= 1
        THEN (config.padding_ratio * image.w) \div Milli ELSE 1
PadY == IF (config.padding_ratio * image.h) \div Milli >= 1
        THEN (config.padding_ratio * image.h) \div Milli ELSE 1
PastAspectRule == pc \in {"mask", "metrics", "locate", "extract", "done", "raised"}
PastForegroundRule == pc \in {"metrics", "locate", "extract", "done", "raised"}
PastCoverRule == pc \in {"locate", "extract", "done", "raised"}
TwoPageMode == result.mode \in {"split", "fallback-center"}

\* C1: an image with width < height * min_aspect_ratio is skipped with
\* reason "aspect_ratio", no pages, split_x None and confidence 0, whatever
\* its content; an image with width >= height * min_aspect_ratio (the case of
\* equality included) is never skipped for that reason.
C1_AspectRatioSkip ==
    PastAspectRule =>
        IF TooNarrow
        THEN /\ Returned
             /\ result.mode = "skip"
             /\ result.reason = "aspect_ratio"
             /\ result.pages = << >>
             /\ result.split_x = NoneX
             /\ result.confidence = 0
        ELSE result.reason # "aspect_ratio"

C1_Witness ==
    /\ Returned /\ TooNarrow /\ Drawn
    /\ result.reason = "aspect_ratio"

\* C2: a well-formed spread-shaped image whose mask is empty or whose
\* foreground ratio is below min_foreground_ratio is skipped with reason
\* "no_foreground" and no pages.
C2_NoForegroundSkip ==
    (PastForegroundRule /\ WellFormed /\ ~TooNarrow /\ TooLittleForeground) =>
        /\ Returned
        /\ result.mode = "skip"
        /\ result.reason = "no_foreground"
        /\ result.pages = << >>

C2_Witness ==
    /\ Returned /\ WellFormed /\ ~TooNarrow
    /\ Foreground # {} /\ TooLittleForeground
    /\ result.reason = "no_foreground"

\* C3: past both skip rules the result is "cover-trim" exactly when
\* content_width_ratio < cover_content_ratio and bbox_height_ratio > 0.8; it
\* then has split_x None, confidence 1, and one page: the bounding box of the
\* foreground grown by the paddings and clamped to the image.
C3_CoverTrim ==
    (PastCoverRule /\ WellFormed /\ ~TooNarrow /\ ~TooLittleForeground) =>
        IF NarrowAndTall
        THEN /\ Returned
             /\ result.mode = "cover-trim"
             /\ result.split_x = NoneX
             /\ result.confidence = OneF32
             /\ Len(result.pages) = 1
             /\ LET box == TightBox
                IN  Rect(result.pages[1]) =
                      [x0 |-> IF box.x_min - PadX > 0
                              THEN box.x_min - PadX ELSE 0,
                       x1 |-> IF box.x_max + PadX < image.w
                              THEN box.x_max + PadX ELSE image.w,
                       y0 |-> IF box.y_min - PadY > 0
                              THEN box.y_min - PadY ELSE 0,
                       y1 |-> IF box.y_max + PadY < image.h
                              THEN box.y_max + PadY ELSE image.h]
        ELSE result.mode # "cover-trim"

C3_Witness ==
    /\ Returned /\ result.mode = "cover-trim"
    /\ result.pages[1].x0 > 0 /\ result.pages[1].x1 < image.w

\* The least float32 that is not below confidence_threshold: 0.0, the
\* float32 next above 0.001, the float32 next above 0.1, 0.5 and 1.0.
ThresholdF32 ==
    CASE config.confidence_threshold = 0 -> 0
      [] config.confidence_threshold = 1 -> 981668463
      [] config.confidence_threshold = 100 -> 1036831949
      [] config.confidence_threshold = 500 -> 1056964608
      [] config.confidence_threshold = 1000 -> 1065353216

\* C4: past the skip rules and the cover rule the result is
\* "fallback-center" with split_x = width div 2 and confidence >= 0 exactly
\* when the locator returned no column or a confidence below
\* confidence_threshold; otherwise it is "split" with the locator's column
\* and confidence, which is then at least the threshold.
C4_SplitOrFallback ==
    (Returned /\ WellFormed /\ ~TooNarrow /\ ~TooLittleForeground
       /\ ~NarrowAndTall) =>
        LET low == located.confidence < ThresholdF32
        IN  IF located.column = NoneX \/ low
            THEN /\ result.mode = "fallback-center"
                 /\ result.split_x = image.w \div 2
                 /\ result.confidence >= 0
            ELSE /\ result.mode = "split"
                 /\ result.split_x = located.column
                 /\ result.confidence = located.confidence
                 /\ result.confidence >= ThresholdF32

C4_Witness ==
    /\ Returned /\ result.mode = "split"
    /\ config.confidence_threshold > 0

\* C5: the rules apply in the order aspect ratio, no foreground, cover,
\* split/fallback and the first match wins: an image meeting both skip
\* conditions reports "aspect_ratio" without the mask being built, and
\* _locate_split is not invoked when a skip rule or the cover rule matched.
C5_RuleOrder ==
    /\ (PastAspectRule /\ TooNarrow) =>
          /\ Returned /\ result.reason = "aspect_ratio"
          /\ "_build_foreground_mask" \notin calls
    /\ (Returned /\ result.mode \in {"skip", "cover-trim"}) =>
          "_locate_split" \notin calls
    /\ "_locate_split" \in calls =>
          /\ ~TooNarrow /\ ~TooLittleForeground /\ ~NarrowAndTall
          /\ {"_build_foreground_mask", "_compute_bbox"} \subseteq calls
    /\ "_compute_bbox" \in calls => "_build_foreground_mask" \in calls
    /\ "_extract_pages" \in calls => "_locate_split" \in calls

C5_Witness ==
    /\ Returned /\ WellFormed /\ TooNarrow /\ ~Drawn
    /\ result.reason = "aspect_ratio"

\* C6: the number of pages is 0 for "skip", 1 for "cover-trim", 2 for "split"
\* and "fallback-center"; a well-formed spread-shaped image with enough
\* foreground that is not a cover gives two pages.
C6_PageCount ==
    Returned =>
        /\ result.mode = "skip" => Len(result.pages) = 0
        /\ result.mode = "cover-trim" => Len(result.pages) = 1
        /\ TwoPageMode => Len(result.pages) = 2
        /\ (WellFormed /\ ~TooNarrow /\ ~TooLittleForeground /\ ~NarrowAndTall)
             => Len(result.pages) = 2

C6_Witness ==
    /\ Returned /\ result.mode = "fallback-center"
    /\ Len(result.pages) = 2
    /\ \A p \in Foreground : p[1] < image.w \div 2

\* The crop expected for the side [a, b) of the split: the tight box of the
\* side's foreground, or the whole side when it has none, grown by the
\* paddings and clamped to the image.
SideCrop(a, b) ==
    LET side == { p \in Foreground : a <= p[1] /\ p[1] < b }
        x_min == IF side = {} THEN a ELSE SetMin({ p[1] : p \in side })
        x_max == IF side = {} THEN b ELSE SetMax({ p[1] : p \in side }) + 1
        y_min == IF side = {} THEN 0 ELSE SetMin({ p[2] : p \in side })
        y_max == IF side = {} THEN image.h
                 ELSE SetMax({ p[2] : p \in side }) + 1
    IN  [x0 |-> IF x_min - PadX > 0 THEN x_min - PadX ELSE 0,
         x1 |-> IF x_max + PadX < image.w THEN x_max + PadX ELSE image.w,
         y0 |-> IF y_min - PadY > 0 THEN y_min - PadY ELSE 0,
         y1 |-> IF y_max + PadY < image.h THEN y_max + PadY ELSE image.h]

\* The column _extract_pages cuts at: split_x clipped to [1, width - 1].
CutColumn ==
    LET lo == IF result.split_x < 1 THEN 1 ELSE result.split_x
    IN  IF lo > image.w - 1 THEN image.w - 1 ELSE lo

\* C7: in modes "split" and "fallback-center" pages[0] is the crop of the
\* side at or right of the split column and pages[1] the crop of the side
\* left of it (right page first, then left).
C7_RightPageFirst ==
    (Returned /\ TwoPageMode) =>
        /\ Len(result.pages) = 2
        /\ Rect(result.pages[1]) = SideCrop(CutColumn, image.w)
        /\ Rect(result.pages[2]) = SideCrop(0, CutColumn)
        /\ result.pages[1].x0 >= result.pages[2].x0
        /\ result.pages[1].x1 >= result.pages[2].x1

C7_Witness ==
    /\ Returned /\ result.mode = "split"
    /\ \E p \in Foreground : p[1] >= result.split_x
    /\ \E p \in Foreground : p[1] < result.split_x
    /\ result.pages[1].x0 > result.pages[2].x0
    /\ result.pages[1].x1 > result.pages[2].x1

\* C8: for a well-formed image (height >= 1, width >= 1) split_image never
\* raises and returns one of the four modes; an image without foreground, an
\* ambiguous gutter and a spread too small for a search window are all
\* reported as modes.
C8_NeverRaises ==
    WellFormed =>
        /\ pc # "raised"
        /\ Returned =>
             result.mode \in {"skip", "cover-trim", "split", "fallback-center"}

C8_Witness ==
    /\ Returned /\ WellFormed /\ image.w < 10
    /\ config.min_aspect_ratio >= Milli
    /\ located.column = NoneX
    /\ result.mode = "fallback-center"

\* C9: a zero-area image (height = 0 or width = 0) is rejected: split_image
\* does not return a SplitResult for it.
C9_ZeroAreaRejected ==
    (image.h = 0 \/ image.w = 0) => ~Returned

\* C10: confidence is in [0, 1]: 0 for "skip", 1 for "cover-trim", and for
\* "split" and "fallback-center" the confidence of the locator, which is
\* neither negative nor above 1 (float32 bit patterns from 0.0 to 1.0).
C10_ConfidenceRange ==
    Returned =>
        /\ 0 <= result.confidence
        /\ result.confidence <= OneF32
        /\ result.mode = "skip" => result.confidence = 0
        /\ result.mode = "cover-trim" => result.confidence = OneF32
        /\ TwoPageMode =>
             /\ result.confidence = located.confidence
             /\ 0 <= located.confidence
             /\ located.confidence <= OneF32

C10_Witness ==
    /\ Returned /\ result.mode = "split"
    /\ 0 < result.confidence
    /\ result.confidence < OneF32

-----------------------------------------------------------------------------
(* Properties of _locate_split, on its own and inside split_image.         *)

Located ==
    \/ pc = "direct"
    \/ pc \in {"extract", "done"} /\ "_locate_split" \in calls
Margin ==
    IF (config.edge_exclusion_ratio * image.w) \div Milli >= 5
    THEN (config.edge_exclusion_ratio * image.w) \div Milli ELSE 5
WindowCollapsed == 2 * Margin >= image.w
Window == Margin..(image.w - Margin - 1)
Chosen == located.column
NothingLocated == located.column = NoneX /\ located.confidence = 0

\* C17: _locate_split answers (None, 0.0) whenever the mask has no foreground
\* column or the search window is empty (2 * edge_margin >= width), and a
\* split_image call whose locator answered None returns 'fallback-center'
\* with split_x = width // 2.
C17_NoCandidateFallsBack ==
    Located =>
        /\ (Foreground = {} \/ WindowCollapsed) => NothingLocated
        /\ (Returned /\ Chosen = NoneX) =>
               /\ result.mode = "fallback-center"
               /\ result.split_x = image.w \div 2

C17_Witness ==
    /\ Returned /\ Located /\ WindowCollapsed
    /\ NothingLocated
    /\ result.mode = "fallback-center"

\* C18: edge_margin is max(5, floor(width * edge_exclusion_ratio)) and every
\* column _locate_split returns lies in edge_margin <= x < width -
\* edge_margin, so the split_x of a 'split' result lies there too.
C18_ColumnInsideWindow ==
    /\ (Located /\ Chosen # NoneX) =>
           /\ probe.edge_margin = Margin
           /\ Chosen \in Window
    /\ (Returned /\ result.mode = "split") => result.split_x \in Window

C18_Witness ==
    /\ Returned /\ result.mode = "split"
    /\ Margin = 5 /\ (config.edge_exclusion_ratio * image.w) \div Milli < 5
    /\ result.split_x \in Window

Valleys ==
    { x \in Window : /\ probe.smoothed[x] <= probe.smoothed[x - 1]
                     /\ probe.smoothed[x] <= probe.smoothed[x + 1] }
FirstWindowMinimum ==
    { x \in Window :
        /\ \A y \in Window : probe.smoothed[x] <= probe.smoothed[y]
        /\ \A y \in Window : y < x => probe.smoothed[y] > probe.smoothed[x] }
CandidateSet == { probe.candidates[i] : i \in DOMAIN probe.candidates }

\* C19: the valley candidates are exactly the window columns whose smoothed
\* value is <= both neighbours, listed once each in ascending order; when
\* there is none, the only candidate is the first column holding the
\* minimum of the window.
C19_ValleyCandidates ==
    (Located /\ Chosen # NoneX) =>
        /\ CandidateSet = IF Valleys # {} THEN Valleys ELSE FirstWindowMinimum
        /\ \A i, j \in DOMAIN probe.candidates :
               i < j => probe.candidates[i] < probe.candidates[j]

C19_Witness ==
    /\ Located /\ Chosen # NoneX
    /\ \E x \in Valleys :
          /\ x + 1 \in Valleys
          /\ x = Margin
          /\ probe.smoothed[x] = probe.smoothed[x + 1]
          /\ probe.smoothed[x] < probe.smoothed[x - 1]
    /\ CandidateSet = Valleys

\* The composite score of column x, each step rounded to float32:
\*   |cumulative[x] / (total + 1e-6) - 0.5| + 0.1 * (smoothed[x] / (max_val + 1e-6))
CompositeScore(x) ==
    LET share == F32Div(probe.cumulative[x], F32Add(probe.total, EpsF32))
        off == IF share >= HalfF32 THEN F32Sub(share, HalfF32)
               ELSE F32Sub(HalfF32, share)
        height == F32Div(probe.smoothed[x], F32AddEps(probe.max_val))
    IN  F32Add(off, F32Product(TenthF32, height))

Cheaper(a, b) == CompositeScore(a) < CompositeScore(b)

\* C20: the column _locate_split returns is a candidate of minimum composite
\* score, and among the candidates of that score the one of lowest index.
C20_MinimumScore ==
    (Located /\ Chosen # NoneX) =>
        /\ Chosen \in CandidateSet
        /\ \A c \in CandidateSet :
               /\ ~Cheaper(c, Chosen)
               /\ c < Chosen => Cheaper(Chosen, c)

C20_Witness ==
    /\ Located /\ Len(probe.candidates) >= 2
    /\ Chosen = probe.candidates[2]
    /\ Cheaper(Chosen, probe.candidates[1])

C20_TieWitness ==
    /\ Located /\ Len(probe.candidates) >= 2
    /\ Chosen = probe.candidates[1]
    /\ ~Cheaper(Chosen, probe.candidates[2])
    /\ ~Cheaper(probe.candidates[2], Chosen)

-----------------------------------------------------------------------------
(* One centred block across the search window. *)

SolidBlock ==
    LET dark == Foreground
        xs == { p[1] : p \in dark }
        ys == { p[2] : p \in dark }
    IN  /\ dark # {}
        /\ dark = (SetMin(xs)..SetMax(xs)) \X (SetMin(ys)..SetMax(ys))
LeftGap == TightBox.x_min
RightGap == image.w - TightBox.x_max
CoversWindow ==
    /\ Window # {}
    /\ LeftGap <= Margin
    /\ RightGap <= Margin
Centred == LeftGap - RightGap \in {-1, 0, 1}
\* The block is wide enough for three columns next to each other to lie
\* the radius of the blur inside it: the middle one is a valley as high as
\* the smoothed projection gets.
WideBlock == TightBox.x_max - TightBox.x_min >= 2 * KernelRadius + 3
PageWidth(i) == result.pages[i].x1 - result.pages[i].x0
CentreFallback ==
    /\ result.mode = "fallback-center"
    /\ result.split_x = image.w \div 2
    /\ Len(result.pages) = 2
    /\ PageWidth(1) - PageWidth(2) \in -4..4

\* C13 as stated: an image (past the two skip rules) whose foreground is one
\* solid block that covers the whole search window, with left and right gaps
\* to the image edges differing by at most 1 px, returns 'fallback-center'
\* with split_x = width // 2 and pages whose widths differ by at most 4 px.
C13_FallbackSymmetry_Stated ==
    (/\ Returned /\ WellFormed /\ SolidBlock /\ CoversWindow /\ Centred
     /\ ~TooNarrow /\ ~TooLittleForeground)
        => CentreFallback

\* The same with the cover rule out of the way and a positive
\* confidence_threshold, for a block of any width.
C13_AnyWidth ==
    (/\ Returned /\ WellFormed
     /\ config.confidence_threshold > 0
     /\ ~TooNarrow
     /\ SolidBlock /\ CoversWindow /\ Centred
     /\ ~TooLittleForeground /\ ~NarrowAndTall)
        => CentreFallback

\* C13 amended: the same holds when the cover rule does not apply either,
\* confidence_threshold is positive and the block is at least 11 columns
\* wide (twice the radius of the projection blur, plus 3).
C13_FallbackSymmetry ==
    (/\ Returned /\ WellFormed
     /\ config.confidence_threshold > 0
     /\ ~TooNarrow
     /\ SolidBlock /\ CoversWindow /\ Centred
     /\ ~TooLittleForeground /\ ~NarrowAndTall
     /\ WideBlock)
        => CentreFallback

C13_Witness ==
    /\ Returned /\ WellFormed /\ SolidBlock /\ CoversWindow /\ Centred
    /\ ~TooNarrow /\ ~TooLittleForeground /\ ~NarrowAndTall
    /\ config.confidence_threshold > 0
    /\ WideBlock
    /\ Chosen # NoneX
    /\ CentreFallback

-----------------------------------------------------------------------------
(* Two calls compared. *)

SameInputs == earlier.set /\ earlier.image = image /\ earlier.config = config

WindowMax ==
    CHOOSE v \in { probe.smoothed[x] : x \in Window } :
        \A x \in Window : probe.smoothed[x] <= v
ValleyValue == probe.smoothed[Chosen]
EarlierValleyValue == earlier.probe.smoothed[earlier.located.column]
EarlierWindowMax ==
    LET margin == earlier.probe.edge_margin
        inner == margin..(earlier.image.w - margin - 1)
    IN  CHOOSE v \in { earlier.probe.smoothed[x] : x \in inner } :
            \A x \in inner : earlier.probe.smoothed[x] <= v
BothLocated ==
    /\ Located /\ Chosen # NoneX
    /\ earlier.set /\ earlier.located.column # NoneX
    /\ EarlierWindowMax = WindowMax

\* C12: the confidence of a located column is (window_max - valley) /
\* (window_max + 1e-6) in float32, and of two projections with the same window maximum
\* the one whose chosen valley is lower gets a confidence at least as high.
C12_DeeperValleyMoreConfident ==
    /\ (Located /\ Chosen # NoneX) =>
           located.confidence =
               F32Div(F32Sub(WindowMax, ValleyValue), F32AddEps(WindowMax))
    /\ (BothLocated /\ ValleyValue <= EarlierValleyValue) =>
           located.confidence >= earlier.located.confidence

C12_Witness ==
    /\ BothLocated
    /\ Len(probe.candidates) = 1 /\ Len(earlier.probe.candidates) = 1
    /\ Valleys # {} /\ ValleyValue < EarlierValleyValue
    /\ earlier.located.confidence < located.confidence

\* C15: no returned page shares its pixels with the image, and between the
\* call and its return, and while the caller writes to a page it received,
\* the image and the config keep their values.
C15_InputsUntouched ==
    /\ [](Returned => \A i \in DOMAIN result.pages :
                          ~SharesPixels(result.pages[i]))
    /\ [][(pc # "idle" /\ pc' # "idle")
            => (image' = image /\ config' = config)]_vars

C15_Witness ==
    /\ pc = "painted"
    /\ painted = 2
    /\ result.mode = "split"
    /\ result.pages[2].x1 > result.pages[2].x0
    /\ result.pages[2].y1 > result.pages[2].y0
    /\ ~SharesPixels(result.pages[2])

-----------------------------------------------------------------------------
(* The files split_cli writes. *)

Ext == IF cli.source.suffix = "" THEN ".png" ELSE cli.source.suffix
CoverName == cli.source.stem \o "_cover" \o Ext
RightName == cli.source.stem \o "_R" \o Ext
LeftName == cli.source.stem \o "_L" \o Ext
ExpectedWrites ==
    IF result.mode = "skip" THEN << >>
    ELSE IF result.mode = "cover-trim"
    THEN << [name |-> CoverName, page |-> result.pages[1]] >>
    ELSE << [name |-> RightName, page |-> result.pages[1]],
            [name |-> LeftName, page |-> result.pages[2]] >>

\* C14: _export_result writes nothing and returns no name for 'skip'; writes
\* pages[0] as <stem>_cover<ext> for 'cover-trim'; writes pages[0] as
\* <stem>_R<ext> and then pages[1] as <stem>_L<ext> for 'split' and
\* 'fallback-center'; the returned names are those of the files written, in
\* that order.  A run stopped by an existing file has written a prefix.
C14_ExportNames ==
    /\ pc = "exported" =>
           /\ cli.written = ExpectedWrites
           /\ cli.outputs = [i \in DOMAIN ExpectedWrites |-> ExpectedWrites[i].name]
    /\ pc = "failed" =>
           /\ Len(cli.written) < Len(ExpectedWrites)
           /\ cli.written = SubSeq(ExpectedWrites, 1, Len(cli.written))

C14_Witness ==
    /\ pc = "exported"
    /\ result.mode = "split"
    /\ cli.outputs = << "p02_R.jpg", "p02_L.jpg" >>
    /\ cli.written[1].page = result.pages[1]
    /\ cli.written[2].page = result.pages[2]

ConfigInRange ==
    /\ config.min_aspect_ratio >= Milli
    /\ \A f \in {"padding_ratio", "confidence_threshold",
                  "cover_content_ratio", "edge_exclusion_ratio",
                  "min_foreground_ratio"} :
          config[f] >= 0 /\ config[f] <= Milli

\* C16: every SplitConfig handed to split_image has its ratios in [0, 1] and
\* min_aspect_ratio >= 1.0, the configs built by _make_config from the
\* command-line options included.
C16_ConfigInvariant == pc # "idle" => ConfigInRange

-----------------------------------------------------------------------------
(* Crops, boxes and paddings of split_image.                               *)

\* The pixels of a page: columns [x0, x1) and rows [y0, y1).
InsidePage(p, page) ==
    /\ page.x0 <= p[1] /\ p[1] < page.x1
    /\ page.y0 <= p[2] /\ p[2] < page.y1

\* The columns [a, b) of the side page i is cut from.
SideOf(i) ==
    IF result.mode = "cover-trim" THEN <<0, image.w>>
    ELSE IF i = 1 THEN <<CutColumn, image.w>> ELSE <<0, CutColumn>>

InkOf(i) ==
    LET side == SideOf(i)
        a == side[1]
        b == side[2]
    IN  { p \in Foreground : a <= p[1] /\ p[1] < b }

\* C21: _crop_region never returns an empty crop: every page returned by
\* split_image satisfies 0 <= x0 < x1 <= width and 0 <= y0 < y1 <= height
\* and contains the whole box it was cut for, so it has positive width and
\* height.
C21_CropInsideImage ==
    Returned =>
        \A i \in DOMAIN result.pages :
            LET page == result.pages[i]
            IN  /\ 0 <= page.x0 /\ page.x0 < page.x1 /\ page.x1 <= image.w
                /\ 0 <= page.y0 /\ page.y0 < page.y1 /\ page.y1 <= image.h
                /\ \A p \in InkOf(i) : InsidePage(p, page)

C21_Witness ==
    /\ Returned /\ result.mode = "split"
    /\ result.pages[2].x0 = 0 /\ result.pages[1].x1 = image.w
    /\ \E p \in Foreground : p[1] = 0
    /\ \E p \in Foreground : p[1] = image.w - 1
    /\ result.pages[1].x0 > 0

\* C22: a side of the split without foreground in its columns [a, b) gets
\* the box (a, 0, b, height) and its page is still produced; a side with
\* foreground gets the tight box of its own foreground.  Each page is that
\* box grown by the paddings and cut to the image.
C22_RegionBox ==
    (Returned /\ TwoPageMode) =>
        /\ Len(result.pages) = 2
        /\ \A i \in {1, 2} :
              LET ink == InkOf(i)
                  page == result.pages[i]
                  box == IF ink = {}
                         THEN <<SideOf(i)[1], 0, SideOf(i)[2], image.h>>
                         ELSE <<SetMin({ p[1] : p \in ink }),
                                SetMin({ p[2] : p \in ink }),
                                SetMax({ p[1] : p \in ink }) + 1,
                                SetMax({ p[2] : p \in ink }) + 1>>
              IN  /\ page.x0 = Max(box[1] - padding[1], 0)
                  /\ page.x1 = Min(box[3] + padding[1], image.w)
                  /\ page.y0 = Max(box[2] - padding[2], 0)
                  /\ page.y1 = Min(box[4] + padding[2], image.h)

C22_Witness ==
    /\ Returned /\ result.mode = "fallback-center"
    /\ InkOf(1) = {} /\ InkOf(2) # {}
    /\ result.pages[1].x0 > padding[1]
    /\ result.pages[1].x0 = CutColumn - padding[1]
    /\ result.pages[1].x1 = image.w

\* C23: the horizontal padding is max(1, floor(padding_ratio * width)) and
\* the vertical one max(1, floor(padding_ratio * height)), each from the
\* full image dimension and each at least 1; the cover crop and both split
\* pages are grown by these same paddings.
C23_Padding ==
    (pc \in {"locate", "extract"} \/ (Returned /\ result.mode # "skip")) =>
        /\ padding = <<PadX, PadY>>
        /\ padding[1] >= 1 /\ padding[2] >= 1
        /\ Returned =>
              \A i \in DOMAIN result.pages :
                  LET ink == InkOf(i)
                      page == result.pages[i]
                  IN  ink # {} =>
                        /\ page.x0 \in {0, SetMin({ p[1] : p \in ink }) - PadX}
                        /\ page.x1 \in {image.w,
                                        SetMax({ p[1] : p \in ink }) + 1 + PadX}
                        /\ page.y0 \in {0, SetMin({ p[2] : p \in ink }) - PadY}
                        /\ page.y1 \in {image.h,
                                        SetMax({ p[2] : p \in ink }) + 1 + PadY}

C23_Witness ==
    /\ Returned /\ TwoPageMode
    /\ padding[1] >= 2 /\ padding[2] = 1
    /\ config.padding_ratio * image.h < Milli
    /\ image.h >= 2
    /\ \E i \in {1, 2} :
          /\ InkOf(i) # {}
          /\ result.pages[i].x0 > 0
          /\ result.pages[i].x0
               = SetMin({ p[1] : p \in InkOf(i) }) - padding[1]

\* C24: the box of the whole mask and the boxes of the two sides satisfy
\* 0 <= x_min < x_max <= width and 0 <= y_min < y_max <= height, so the
\* content width ratio and the box height ratio lie in (0, 1].
C24_BoxInsideImage ==
    /\ (pc \in {"locate", "extract"} \/ (Returned /\ result.mode # "skip")) =>
          /\ 0 <= bbox[1] /\ bbox[1] < bbox[3] /\ bbox[3] <= image.w
          /\ 0 <= bbox[2] /\ bbox[2] < bbox[4] /\ bbox[4] <= image.h
          /\ Returned =>
                /\ result.content_width_ratio.num > 0
                /\ result.content_width_ratio.num
                     <= result.content_width_ratio.den
    /\ (Returned /\ TwoPageMode) =>
          \A i \in {1, 2} :
              LET box == _compute_region_bbox(mask, SideOf(i)[1], SideOf(i)[2])
              IN  /\ 0 <= box[1] /\ box[1] < box[3] /\ box[3] <= image.w
                  /\ 0 <= box[2] /\ box[2] < box[4] /\ box[4] <= image.h

\* The mask has a True cell.
HasInk ==
    \E y \in DOMAIN mask : \E x \in DOMAIN mask[y] : mask[y][x]

\* C25: _compute_bbox is called on the whole mask only when the mask has a
\* true pixel; a call that passes the aspect-ratio rule with an empty mask
\* ends in the "no_foreground" skip before _compute_bbox.
C25_BoxOnlyWithForeground ==
    /\ "_compute_bbox" \in calls => HasInk
    /\ (PastForegroundRule /\ WellFormed /\ ~TooNarrow /\ ~HasInk) =>
          /\ Returned
          /\ result.mode = "skip" /\ result.reason = "no_foreground"

C25_Witness ==
    /\ Returned /\ WellFormed /\ Foreground = {}
    /\ config.min_foreground_ratio = 0
    /\ result.reason = "no_foreground"
    /\ "_compute_bbox" \notin calls

-----------------------------------------------------------------------------
(* Properties of the job service.                                          *)

Running == { j \in DOMAIN jobs : jobs[j].status = "RUNNING" }
Executing(j) ==
    { t \in DOMAIN tasks : tasks[t].job = j /\ tasks[t].at = "executing" }
Finished(j) == j \in DOMAIN jobs /\ jobs[j].status \in {"SUCCESS", "FAILED"}

\* C26: a job cancelled by cancel_job keeps status FAILED and the message
\* "Cancelled by user" until resume_job is called for it; no step of a
\* _run_job task created before changes its status.
C26_CancelledStaysFailed ==
    \A j \in cancelled :
        /\ jobs[j].status = "FAILED"
        /\ jobs[j].message = "Cancelled by user"

\* C27: for every job id at most one _run_job task is inside execute_job
\* at any time, whatever MAX_CONCURRENCY is.
C27_OneRunPerJob ==
    \A j \in DOMAIN jobs : Cardinality(Executing(j)) <= 1

\* C28: the number of jobs with status RUNNING never exceeds
\* MAX_CONCURRENCY.
C28_RunningWithinLimit ==
    Cardinality(Running) <= max_concurrency

C28_Witness ==
    /\ max_concurrency = 1
    /\ Cardinality(Running) = 1
    /\ \E t \in DOMAIN tasks :
          /\ tasks[t].at = "waiting"
          /\ jobs[tasks[t].job].status = "PENDING"
          /\ tasks[t].job \notin Running

\* The step ends execute_job of task t.
Ends(t) == tasks[t].at = "executing" /\ tasks'[t].at = "done"

\* The job of task t after the step: FAILED with the text as message and
\* last_error.
EndsFailed(t, text) ==
    LET record == jobs'[tasks[t].job]
    IN  /\ record.status = "FAILED"
        /\ record.message = text
        /\ record.last_error = text

\* The job of task t after the step: SUCCESS with the fields of the result,
\* the artifact path relative to the storage root.
StoredResult(t, res) ==
    LET record == jobs'[tasks[t].job]
    IN  /\ record.status = "SUCCESS"
        /\ record.processed = res.processed
        /\ record.total = res.total
        /\ <<"storage">> \o record.artifact_path = res.artifact_path
        /\ record.artifact_hash = res.artifact_hash

\* No directory on the way to the artifact is a symbolic link, so the
\* artifact lies under the storage root once its path is resolved.
ArtifactInsideRoot(res, fs) ==
    \A l \in fs :
        \A n \in 1..Len(res.artifact_path) :
            l.link # SubSeq(res.artifact_path, 1, n)

\* Every job that exists is finished again and again; jobs are never removed,
\* so this is 'every created job eventually has status SUCCESS or FAILED',
\* also after each resume.
JobsEnd ==
    \A j \in JobIds : []<>(j \in DOMAIN jobs => Finished(j))

\* C29 as stated: every created job eventually has status SUCCESS or FAILED,
\* when execute_job ends and ready tasks are run; the step in which
\* execute_job raises leaves the job FAILED with message and last_error equal
\* to the exception text, and the step in which it returns leaves the job
\* SUCCESS with processed, total, artifact_path and artifact_hash of the
\* result.
C29_JobsFinish_Stated ==
    /\ JobsEnd
    /\ [][\A t \in DOMAIN tasks :
            Ends(t) =>
                /\ \A text \in Errors :
                      FinishRaise(t, text) => EndsFailed(t, text)
                /\ \A res \in Results, fs \in FileSystems :
                      FinishReturn(t, res, fs) => StoredResult(t, res)]_vars

\* C29 amended: the step in which execute_job returns leaves the job SUCCESS
\* with the fields of the result and the resolved artifact path made relative
\* to the storage root when that path lies under the storage root, and FAILED
\* with message and last_error "Artifact escaped storage root" when it does
\* not; the rest as stated.
C29_JobsFinish ==
    /\ JobsEnd
    /\ [][\A t \in DOMAIN tasks :
            Ends(t) =>
                /\ \A text \in Errors :
                      FinishRaise(t, text) => EndsFailed(t, text)
                /\ \A res \in Results, fs \in FileSystems :
                      FinishReturn(t, res, fs) =>
                          IF ArtifactInsideRoot(res, fs)
                          THEN StoredResult(t, res)
                          ELSE EndsFailed(t,
                                          "Artifact escaped storage root")]_vars

C29_Witness ==
    /\ Len(jobs) = 2
    /\ jobs[1].status = "FAILED"
    /\ jobs[1].message = "Artifact escaped storage root"
    /\ jobs[1].last_error = "Artifact escaped storage root"
    /\ jobs[2].status = "SUCCESS" /\ jobs[2].artifact_hash # None
    /\ jobs[2].artifact_path = <<"artifacts", "vol.zip">>
    /\ \A t \in DOMAIN tasks : tasks[t].at = "done"

\* What resume_job(j) does to the jobs and the runs.
Restarted(j) ==
    /\ jobs'[j].retries = jobs[j].retries + 1
    /\ jobs'[j].status = "PENDING"
    /\ jobs'[j].message = None /\ jobs'[j].last_error = None
    /\ jobs'[j].artifact_path = NoPath /\ jobs'[j].artifact_hash = None
    /\ jobs'[j].processed = 0 /\ jobs'[j].total = 0
    /\ \A k \in DOMAIN jobs : k # j => jobs'[k] = jobs[k]
    /\ Len(tasks') = Len(tasks) + 1
    /\ \A t \in DOMAIN tasks : tasks'[t] = tasks[t]
    /\ tasks'[Len(tasks')].job = j /\ tasks'[Len(tasks')].at = "created"

\* C30: resume_job on a RUNNING job changes no job and starts no run; on a
\* job in any other status it adds 1 to retries, sets PENDING, clears
\* message, last_error, artifact_path and artifact_hash, resets processed
\* and total to 0 and starts exactly one run; on an unknown id it answers
\* 404 and changes no job.
C30_ResumeEffect ==
    [][\A j \in JobIds :
          resume_job(j) =>
              IF j \notin DOMAIN jobs
              THEN reply' = 404 /\ jobs' = jobs /\ tasks' = tasks
              ELSE IF jobs[j].status = "RUNNING"
              THEN jobs' = jobs /\ tasks' = tasks
              ELSE Restarted(j)]_vars

C30_Witness ==
    \E j \in DOMAIN jobs :
        /\ jobs[j].retries = 1 /\ jobs[j].status = "PENDING"
        /\ Cardinality({ t \in DOMAIN tasks : tasks[t].job = j }) = 2
        /\ tasks[Len(tasks)].at = "created"
        /\ tasks[1].at = "done"

====
